---- MODULE Spec2Model ----
(***************************************************************************)
(* Model of the LinkedIn job-alert agent: the Cloud Function entry point   *)
(* processJobAlerts (src/src/index.ts) driving SheetsWriter                *)
(* (src/src/sheets/writer.ts) and JobResumeAnalyzer                        *)
(* (src/src/matcher/analyzer.ts) against a Google Sheet that a human       *)
(* editor changes concurrently.                                            *)
(*                                                                         *)
(* Text values are sequences of one-character strings, so that the first   *)
(* character of a value can be inspected.  Row numbers are 1-based; row 1  *)
(* of the sheet is the header row.  A numeric cell that is empty holds     *)
(* NULL.                                                                   *)
(***************************************************************************)
EXTENDS Integers, Sequences, FiniteSets, TLC

VARIABLES
    sheet,            \* the Jobs sheet: sequence of rows, sheet[1] is the header
    existingJobs,     \* SheetsWriter.existingJobs: [isNull, map]
    pc,               \* position of processJobAlerts between two awaits
    clock,            \* wall clock, as read by formatDate(new Date())
    uniqueJobs,       \* processJobAlerts: the deduplicated batch of the run
    jobsToAnalyze,    \* processJobAlerts: jobs handed to the analyzer
    matchResults,     \* processJobAlerts: [defined, results] (a Map in insertion order)
    newJobs,          \* appendJobs: records classified as new
    rows,             \* appendJobs: the rows built by jobToRow for newJobs
    currentRowCount,  \* appendJobs: the row count re-read before the append
    writeResult,      \* appendJobs: the counts it returns
    result,           \* processJobAlerts: the ProcessingResult and HTTP status
    writes,           \* write requests the run has sent to the Sheets API
    applied,          \* history: the jobs of the batch the last appendJobs call was
                      \* applied to, emptied when the editor changes the sheet or
                      \* a run starts on another batch
    edits,            \* number of editor actions so far
    fn,               \* function harness: the function applied last ("none" in a run)
    arg,              \* function harness: the argument it was applied to
    ret               \* function harness: the value it returned

vars == <<sheet, existingJobs, pc, clock, uniqueJobs, jobsToAnalyze, matchResults,
          newJobs, rows, currentRowCount, writeResult, result, writes, applied,
          edits, fn, arg, ret>>

\* The variables of processJobAlerts and of the sheet.
run == <<sheet, existingJobs, pc, clock, uniqueJobs, jobsToAnalyze, matchResults,
         newJobs, rows, currentRowCount, writeResult, result, writes, applied,
         edits>>

\* The variables of the function harness.
harness == <<fn, arg, ret>>

-----------------------------------------------------------------------------
(* Bounds *)

MaxJobId == 1
MaxRuns == 2
MaxEdits == 1
MaxEmails == 2
MaxCards == 2
MaxItems == 5
MaxBatch == 4
MaxText == 3
MaxCalls == 3

-----------------------------------------------------------------------------
(* Values *)

NULL == -1

JobStatus ==
    [NEW |-> "NEW", LOW_MATCH |-> "LOW MATCH", NOT_AVAILABLE |-> "NOT AVAILABLE",
     READ |-> "READ", INTERESTED |-> "INTERESTED", NOT_INTERESTED |-> "NOT INTERESTED",
     APPLIED |-> "APPLIED", INTERVIEW_SCHEDULED |-> "INTERVIEW SCHEDULED",
     DECLINED |-> "DECLINED", ACCEPTED |-> "ACCEPTED"]

LOW_MATCH_THRESHOLD == 70

FORMULA_INJECTION_CHARS == {"=", "+", "-", "@"}

COLUMN_HEADERS ==
    <<"job_id", "status", "date_added", "date_modified", "probability",
      "gemini_score", "gemini_argument", "claude_score", "claude_argument",
      "job_title", "company", "location", "url", "notes",
      "requirements_met", "requirements_gaps">>

\* Columns holding free text (sequences of characters).
TextColumns ==
    {"gemini_argument", "claude_argument", "job_title", "company", "location",
     "notes", "requirements_met", "requirements_gaps"}

\* Columns holding numbers.
NumberColumns == {"probability", "gemini_score", "claude_score"}

Range(s) == {s[i] : i \in DOMAIN s}

Max(S) == CHOOSE x \in S : \A y \in S : y <= x

\* Sequences over S of length 0..n.
SeqUpTo(S, n) == UNION {[1..k -> S] : k \in 0..n}

-----------------------------------------------------------------------------
(* Jobs as the parser delivers them *)

JobIds == {ToString(i) : i \in 1..MaxJobId}

\* cleanUrl, the URL it builds: a function of the job id alone.
jobViewUrl(id) == "https://www.linkedin.com/jobs/view/" \o id

\* The text fields an email can carry for one posting: plain text, and text
\* that begins with a formula-injection character.
JobTexts ==
    {[title |-> <<"A">>, company |-> <<"C">>, location |-> <<"L">>],
     [title |-> <<"=", "A">>, company |-> <<"@", "C">>, location |-> <<>>]}

Job ==
    {[jobId |-> id, title |-> t.title, company |-> t.company,
      location |-> t.location, url |-> jobViewUrl(id)] : id \in JobIds, t \in JobTexts}

-----------------------------------------------------------------------------
(* The links of a job card *)

\* The parts of the href of a link: protocol, host, the path up to the
\* job-view segment, the segment, the digits that follow it, what follows the
\* digits, and the query.  An href without a protocol is not an absolute URL.
Href ==
    [scheme : {"https://", "http://", ""},
     host : {"www.linkedin.com", "linkedin.com", "evil.example"},
     prefix : {"/", "/comm/", "/x/"},
     view : {"jobs/view/", "company/"},
     id : {""} \cup JobIds,
     rest : {"", "abc"},
     search : {"", "?trackingId=abc"}]

\* The string of an href.
text(u) == u.scheme \o u.host \o u.prefix \o u.view \o u.id \o u.rest \o u.search

\* The parts of each string that is the text of an href.
HrefParts == [s \in {text(u) : u \in Href} |-> CHOOSE u \in Href : text(u) = s]

\* The parts of a string that is the text of an href.
parts(s) == HrefParts[s]

\* new URL(rawUrl): throws unless the string is an absolute URL.
newURL(rawUrl) ==
    IF parts(rawUrl).scheme = "" THEN <<>> ELSE <<parts(rawUrl)>>

\* pathname.match(JOB_ID_PATTERN), /\/(?:comm\/)?jobs\/view\/(\d+)/ : the
\* pattern is not anchored, so it matches after any prefix of the path and
\* whatever follows the digits; the capture is the run of digits.
matchJobId(url) ==
    IF url.view = "jobs/view/" /\ url.id # "" THEN <<url.id>> ELSE <<>>

\* LINKEDIN_JOB_URL_PATTERN.test(url),
\* /^https:\/\/(?:www\.)?linkedin\.com\/jobs\/view\/\d+$/
testLinkedInJobUrl(url) ==
    LET u == parts(url)
    IN  /\ u.scheme = "https://"
        /\ u.host \in {"www.linkedin.com", "linkedin.com"}
        /\ u.prefix = "/"
        /\ u.view = "jobs/view/"
        /\ u.id # ""
        /\ u.rest = ""
        /\ u.search = ""

\* cleanUrl that keeps the query of the raw URL.
cleanUrl_KeepSearch(rawUrl) ==
    LET url == newURL(rawUrl)
    IN  IF url = <<>> THEN rawUrl
        ELSE IF matchJobId(url[1]) # <<>>
             THEN jobViewUrl(matchJobId(url[1])[1]) \o url[1].search
             ELSE rawUrl

\* cleanUrl: the job-view URL of the id found in the path of the raw URL,
\* and the raw URL itself when it cannot be parsed or has no such id.
cleanUrl(rawUrl) ==
    LET url == newURL(rawUrl)
    IN  IF url = <<>> THEN rawUrl
        ELSE IF matchJobId(url[1]) # <<>>
             THEN jobViewUrl(matchJobId(url[1])[1])
             ELSE rawUrl

-----------------------------------------------------------------------------
(* The validator of a parsed job *)

\* The url rule of JobSchema, /^https:\/\/(?:www\.)?linkedin\.com\/jobs\/view\/\d+/ :
\* the pattern has no end anchor, so anything may follow the digits.
schemaUrlTest(url) ==
    LET u == parts(url)
    IN  /\ u.scheme = "https://"
        /\ u.host \in {"www.linkedin.com", "linkedin.com"}
        /\ u.prefix = "/"
        /\ u.view = "jobs/view/"
        /\ u.id # ""

\* JobSchema: the fields of the data that fail their rule.
JobSchema(data) ==
    {f \in {"jobId", "title", "company", "url"} :
        \/ f = "jobId" /\ data.jobId = ""
        \/ f = "title" /\ Len(data.title) < 1
        \/ f = "company" /\ Len(data.company) < 1
        \/ f = "url" /\ ~schemaUrlTest(data.url)}

\* parseJob: JobSchema.parse, which throws a ZodError with the issues.
parseJob(data) ==
    LET issues == JobSchema(data)
    IN  IF issues # {} THEN [throws |-> TRUE, issues |-> issues, job |-> <<>>]
        ELSE [throws |-> FALSE, issues |-> {}, job |-> <<data>>]

\* safeParseJob with a rule set of its own, without the rule of the company.
safeParseJob_OwnRules(data) ==
    IF JobSchema(data) \ {"company"} = {} THEN <<data>> ELSE <<>>

\* safeParseJob: JobSchema.safeParse, the data on success and null (the
\* empty sequence) otherwise.
safeParseJob(data) ==
    IF JobSchema(data) = {} THEN <<data>> ELSE <<>>

-----------------------------------------------------------------------------
(* The job card *)

\* String.prototype.trim on a text whose white space is the character " ".
RECURSIVE trimStart(_)
trimStart(s) == IF s # <<>> /\ Head(s) = " " THEN trimStart(Tail(s)) ELSE s

RECURSIVE trimEnd(_)
trimEnd(s) ==
    IF s # <<>> /\ s[Len(s)] = " " THEN trimEnd(SubSeq(s, 1, Len(s) - 1)) ELSE s

trim(s) == trimEnd(trimStart(s))

UnknownTitle == <<"U", "n", "k", "n", "o", "w", "n", " ", "T", "i", "t", "l", "e">>

Premium == <<"P", "r", "e", "m", "i", "u", "m">>

\* A job card: the hrefs of its links in document order, for each link its
\* text, whether it has the class font-bold and whether it contains an
\* image; the text of the first h3, h4 and [data-test-id="job-title"]
\* element (empty when there is none); the alt of the first image that has
\* one, the first segment of the first paragraph with a middle dot, and the
\* location.  Card(links) has links with a text of three characters, not
\* bold, without an image.
Card(links) ==
    [links |-> links,
     anchors |-> [i \in DOMAIN links |->
                     [text |-> <<"J", "o", "b">>, bold |-> FALSE, img |-> FALSE]],
     h3 |-> <<>>, h4 |-> <<>>, jobTitle |-> <<>>,
     alt |-> <<"C">>, paragraphCompany |-> <<>>, location |-> <<"L">>]

\* card.find('a[href*="jobs/view"]'): the links to a job view, in document
\* order.
RECURSIVE findJobLinks(_, _)
findJobLinks(card, i) ==
    IF i > Len(card.links) THEN <<>>
    ELSE (IF parts(card.links[i]).view = "jobs/view/"
          THEN <<[href |-> card.links[i], text |-> card.anchors[i].text,
                  bold |-> card.anchors[i].bold, img |-> card.anchors[i].img]>>
          ELSE <<>>) \o findJobLinks(card, i + 1)

\* .text() of a selection: the texts of its elements, one after the other.
RECURSIVE selectionText(_)
selectionText(links) ==
    IF links = <<>> THEN <<>> ELSE Head(links).text \o selectionText(Tail(links))

\* Strategy 1: the text of the font-bold links to a job view.
fontBoldTitle(card) ==
    LET fontBoldLink == SelectSeq(findJobLinks(card, 1), LAMBDA a : a.bold)
    IN  IF Len(fontBoldLink) > 0 THEN trim(selectionText(fontBoldLink)) ELSE <<>>

\* Strategy 2: the text of the first link to a job view whose trimmed text
\* has more than 2 characters and that contains no image.
linkTitle(card) ==
    LET found == SelectSeq(findJobLinks(card, 1),
                           LAMBDA a : /\ trim(a.text) # <<>>
                                      /\ Len(trim(a.text)) > 2
                                      /\ ~a.img)
    IN  IF found = <<>> THEN <<>> ELSE trim(Head(found).text)

\* Strategy 3: the first of h3, h4 and [data-test-id="job-title"] whose
\* trimmed text has more than 2 characters.
headingTitle(card) ==
    LET headings == SelectSeq(<<card.h3, card.h4, card.jobTitle>>,
                              LAMBDA h : trim(h) # <<>> /\ Len(trim(h)) > 2)
    IN  IF headings = <<>> THEN <<>> ELSE trim(Head(headings))

\* The title with the headings consulted before the links.
extractTitle_HeadingFirst(card) ==
    LET title1 == headingTitle(card)
        title2 == IF title1 = <<>> THEN fontBoldTitle(card) ELSE title1
        title3 == IF title2 = <<>> THEN linkTitle(card) ELSE title2
    IN  IF title3 = <<>> THEN UnknownTitle ELSE title3

\* part_002 94-129: the title of the card.
extractTitle(card) ==
    LET title1 == fontBoldTitle(card)
        title2 == IF title1 = <<>> THEN linkTitle(card) ELSE title1
        title3 == IF title2 = <<>> THEN headingTitle(card) ELSE title2
    IN  IF title3 = <<>> THEN UnknownTitle ELSE title3

\* part_002 130-150 and 180: the company of the card.
extractCompany(card) ==
    LET alt == IF card.alt \in {Premium, <<>>} THEN <<>> ELSE card.alt
        company == IF alt = <<>> THEN card.paragraphCompany ELSE alt
    IN  IF company = <<>>
        THEN <<"U", "n", "k", "n", "o", "w", "n", " ",
               "C", "o", "m", "p", "a", "n", "y">>
        ELSE company

\* extractJobFromCard: the job of the card, in a sequence that is empty when
\* the card is skipped.
extractJobFromCard(card) ==
    LET jobLinks == findJobLinks(card, 1)
    IN  IF jobLinks = <<>> THEN <<>>
        ELSE LET rawUrl == Head(jobLinks).href
                 url == cleanUrl(rawUrl)
             IN  IF ~testLinkedInJobUrl(url) THEN <<>>
                 ELSE IF matchJobId(parts(url)) = <<>> THEN <<>>
                 ELSE safeParseJob([jobId |-> matchJobId(parts(url))[1],
                                    title |-> extractTitle(card),
                                    company |-> extractCompany(card),
                                    location |-> card.location, url |-> url])

-----------------------------------------------------------------------------
(* The provider clients *)

\* What a request to a provider can come to: an exception, a response
\* without a text block (Claude), an empty text, a text of fewer than 10
\* characters, a text that is not JSON, JSON without a numeric probability,
\* or JSON with a probability, a number given here in halves.
ProviderResponse ==
    [kind : {"throws", "no text", "empty", "short", "unparsable", "no probability"},
     halves : {0}]
    \cup [kind : {"number"}, halves : (-3..3) \cup (139..141) \cup (197..203)]

\* The probability without the clamp.
clampProbability_RoundOnly(halves) == (halves + 1) \div 2

\* Math.max(0, Math.min(100, Math.round(parsed.probability))); Math.round of
\* a number given in halves is the nearest integer, a half rounded up.
clampProbability(halves) ==
    LET rounded == (halves + 1) \div 2
        capped == IF rounded < 100 THEN rounded ELSE 100
    IN  IF capped > 0 THEN capped ELSE 0

\* The MatchAnalysisResult of a response with a numeric probability.
MatchAnalysisResult(response) ==
    [probability |-> clampProbability(response.halves), reasoning |-> <<"r">>]

-----------------------------------------------------------------------------
(* Pure functions *)

\* sanitizeCellValue that looks at every character of the value.
sanitizeCellValue_AnyCharacter(value) ==
    IF Len(value) = 0 THEN value
    ELSE IF \E i \in DOMAIN value : value[i] \in FORMULA_INJECTION_CHARS
         THEN <<"'">> \o value
    ELSE value

sanitizeCellValue(value) ==
    IF Len(value) = 0 THEN value
    ELSE IF Head(value) \in FORMULA_INJECTION_CHARS THEN <<"'">> \o value
    ELSE value

RECURSIVE deduplicateFrom(_, _, _)
deduplicateFrom(items, seen, unique) ==
    IF items = <<>> THEN unique
    ELSE IF Head(items).jobId \in seen
         THEN deduplicateFrom(Tail(items), seen, unique)
         ELSE deduplicateFrom(Tail(items), seen \cup {Head(items).jobId},
                              Append(unique, Head(items)))

\* deduplicateBy keeping the last occurrence of each key.
RECURSIVE deduplicateBy_KeepLast(_)
deduplicateBy_KeepLast(items) ==
    IF items = <<>> THEN <<>>
    ELSE IF \E i \in 2..Len(items) : items[i].jobId = Head(items).jobId
         THEN deduplicateBy_KeepLast(Tail(items))
         ELSE <<Head(items)>> \o deduplicateBy_KeepLast(Tail(items))

\* deduplicateBy without the seen-set test: every item is kept.
deduplicateBy_KeepAll(items) == items

deduplicateBy(items) == deduplicateFrom(items, {}, <<>>)

deduplicateJobs(jobs) == deduplicateFrom(jobs, {}, <<>>)

\* parseEmail: the cards of one email that extract to a valid job, deduplicated.
parseEmail(cards) == deduplicateJobs(cards)

RECURSIVE Concat(_)
Concat(ss) == IF ss = <<>> THEN <<>> ELSE Head(ss) \o Concat(Tail(ss))

-----------------------------------------------------------------------------
(* The Jobs sheet and the Sheets API *)

BlankRow ==
    [job_id |-> "", status |-> "", date_added |-> 0, date_modified |-> 0,
     probability |-> NULL, gemini_score |-> NULL, gemini_argument |-> <<>>,
     claude_score |-> NULL, claude_argument |-> <<>>, job_title |-> <<>>,
     company |-> <<>>, location |-> <<>>, url |-> "", notes |-> <<>>,
     requirements_met |-> <<>>, requirements_gaps |-> <<>>]

\* The header row ensureSheetSetup keeps in row 1.
HeaderRow ==
    [BlankRow EXCEPT !.job_id = "job_id", !.status = "status", !.url = "url"]

Cell(rowNumber, col, val) == [row |-> rowNumber, col |-> col, val |-> val]

\* valueInputOption USER_ENTERED: the value is parsed as if typed into the
\* UI, where a leading apostrophe marks the rest as literal text and is not
\* part of the cell's value.
userEntered(col, val) ==
    IF col \in TextColumns /\ Len(val) > 0 /\ Head(val) = "'" THEN Tail(val) ELSE val

\* A null in the values of a write request leaves the cell as it is.
IsNullValue(col, val) == col \in NumberColumns /\ val = NULL

SetCell(sh, w) ==
    IF IsNullValue(w.col, w.val) THEN sh
    ELSE LET ext == IF w.row > Len(sh)
                    THEN sh \o [i \in 1..(w.row - Len(sh)) |-> BlankRow]
                    ELSE sh
         IN  [ext EXCEPT ![w.row][w.col] = userEntered(w.col, w.val)]

\* spreadsheets.values.update / batchUpdate: the cells of the request, in order.
RECURSIVE valuesUpdate(_, _)
valuesUpdate(sh, data) ==
    IF data = <<>> THEN sh ELSE valuesUpdate(SetCell(sh, Head(data)), Tail(data))

\* spreadsheets.values.get over A:A: the rows up to the last one whose
\* job_id cell is not empty (trailing empty rows are not returned).
valuesGetColumnA(sh) ==
    LET used == {i \in DOMAIN sh : sh[i].job_id # ""}
    IN  IF used = {} THEN 0 ELSE Max(used)

\* spreadsheets.values.get over A:P: the rows up to the last one with any
\* non-empty cell.
valuesGetAll(sh) ==
    LET used == {i \in DOMAIN sh : sh[i] # BlankRow}
    IN  IF used = {} THEN <<>> ELSE SubSeq(sh, 1, Max(used))

-----------------------------------------------------------------------------
(* JobResumeAnalyzer *)

\* What one provider call can do: return null, throw, or return a probability.
ProviderNull == -1
ProviderThrow == -2
Probabilities == {40, 70}
ProviderOutcome == {ProviderNull, ProviderThrow} \cup Probabilities

MatchResult(jobId, probability, status, reasoning) ==
    [jobId |-> jobId, probability |-> probability, status |-> status,
     reasoning |-> reasoning,
     geminiProbability |-> NULL, geminiReasoning |-> <<>>,
     claudeProbability |-> NULL, claudeReasoning |-> <<>>,
     requirementsMet |-> NULL, requirementsTotal |-> NULL,
     requirementsGaps |-> <<>>]

\* determineStatus with the threshold of the comment at writer.ts 224 (50).
determineStatus_Below50(probability) ==
    IF probability = NULL THEN JobStatus.NEW
    ELSE IF probability < 50 THEN JobStatus.LOW_MATCH
    ELSE JobStatus.NEW

\* determineStatus with the threshold itself counted as a low match.
determineStatus_Inclusive(probability) ==
    IF probability = NULL THEN JobStatus.NEW
    ELSE IF probability <= LOW_MATCH_THRESHOLD THEN JobStatus.LOW_MATCH
    ELSE JobStatus.NEW

\* determineStatus returning READ at or above the threshold.
determineStatus_Read(probability) ==
    IF probability = NULL THEN JobStatus.NEW
    ELSE IF probability < LOW_MATCH_THRESHOLD THEN JobStatus.LOW_MATCH
    ELSE JobStatus.READ

determineStatus(probability) ==
    IF probability = NULL THEN JobStatus.NEW
    ELSE IF probability < LOW_MATCH_THRESHOLD THEN JobStatus.LOW_MATCH
    ELSE JobStatus.NEW

createDefaultResult(jobId) == MatchResult(jobId, NULL, JobStatus.NEW, <<>>)

createNotAvailableResult(jobId) ==
    MatchResult(jobId, NULL, JobStatus.NOT_AVAILABLE, <<"n", "a">>)

\* A provider call that gave no probability: a null result or an exception.
failed(outcome) == outcome \in {ProviderNull, ProviderThrow}

\* analyzeJobDual where a failure of either provider makes the job unavailable.
analyzeJobDual_AnyFailure(job, geminiOutcome, claudeOutcome) ==
    IF failed(geminiOutcome) \/ failed(claudeOutcome)
    THEN createNotAvailableResult(job.jobId)
    ELSE LET probability == (geminiOutcome + claudeOutcome + 1) \div 2
         IN  [MatchResult(job.jobId, probability, determineStatus(probability),
                          <<"g", "c">>)
              EXCEPT !.geminiProbability = geminiOutcome,
                     !.claudeProbability = claudeOutcome]

\* The analysis of one job with two providers, with the resume loaded: the
\* first provider is called, then the second; both failed gives not
\* available, one failed gives the other's probability alone, none failed
\* gives the rounded mean of the two (Math.round rounds a half up).
analyzeJobDual(job, geminiOutcome, claudeOutcome) ==
    IF failed(geminiOutcome) /\ failed(claudeOutcome)
    THEN createNotAvailableResult(job.jobId)
    ELSE IF failed(geminiOutcome)
    THEN [MatchResult(job.jobId, claudeOutcome, determineStatus(claudeOutcome),
                      <<"c">>)
          EXCEPT !.claudeProbability = claudeOutcome]
    ELSE IF failed(claudeOutcome)
    THEN [MatchResult(job.jobId, geminiOutcome, determineStatus(geminiOutcome),
                      <<"g">>)
          EXCEPT !.geminiProbability = geminiOutcome]
    ELSE LET probability == (geminiOutcome + claudeOutcome + 1) \div 2
         IN  [MatchResult(job.jobId, probability, determineStatus(probability),
                          <<"g", "c">>)
              EXCEPT !.geminiProbability = geminiOutcome,
                     !.claudeProbability = claudeOutcome]

\* analyzeJob with the resume loaded; outcome is what the provider call did.
analyzeJob(job, outcome) ==
    IF outcome = ProviderThrow THEN createNotAvailableResult(job.jobId)
    ELSE IF outcome = ProviderNull THEN createNotAvailableResult(job.jobId)
    ELSE MatchResult(job.jobId, outcome, determineStatus(outcome), <<"r">>)

\* Map.set that forgets the entries stored before.
mapSet_Replace(results, r) == <<r>>

\* Map.set in insertion order: a later result for the same key replaces the
\* earlier one in place.
mapSet(results, r) ==
    IF \E i \in DOMAIN results : results[i].jobId = r.jobId
    THEN [i \in DOMAIN results |-> IF results[i].jobId = r.jobId THEN r ELSE results[i]]
    ELSE Append(results, r)

RECURSIVE analyzeJobsFrom(_, _, _, _)
analyzeJobsFrom(jobs, outcomes, i, results) ==
    IF i > Len(jobs) THEN results
    ELSE analyzeJobsFrom(jobs, outcomes, i + 1,
                         mapSet(results, analyzeJob(jobs[i], outcomes[i])))

RECURSIVE defaultResultsFrom(_, _, _)
defaultResultsFrom(jobs, i, results) ==
    IF i > Len(jobs) THEN results
    ELSE defaultResultsFrom(jobs, i + 1, mapSet(results, createDefaultResult(jobs[i].jobId)))

\* analyzeJobs: resumeLoaded is the truthiness of the cached resume text.
analyzeJobs(jobs, resumeLoaded, outcomes) ==
    IF Len(jobs) = 0 THEN <<>>
    ELSE IF ~resumeLoaded THEN defaultResultsFrom(jobs, 1, <<>>)
    ELSE analyzeJobsFrom(jobs, outcomes, 1, <<>>)

\* matchResults?.get(jobId): a sequence holding the result, empty when the
\* map is undefined or has no entry.
mapGet(mr, jobId) ==
    IF ~mr.defined THEN <<>>
    ELSE SelectSeq(mr.results, LAMBDA r : r.jobId = jobId)

-----------------------------------------------------------------------------
(* SheetsWriter: the in-memory index and the rows it builds *)

ExistingJobData(rowNumber, title, company, location, url, probability, status) ==
    [rowNumber |-> rowNumber, title |-> title, company |-> company,
     location |-> location, url |-> url, probability |-> probability,
     status |-> status]

\* loadExistingJobs: the index built from the rows after the header; a row
\* with an empty job_id is not indexed, a later row with the same job_id
\* replaces the earlier entry.
loadExistingJobs(sh) ==
    LET values == valuesGetAll(sh)
        ids == {values[i].job_id : i \in 2..Len(values)} \ {""}
    IN  [id \in ids |->
            LET i == Max({k \in 2..Len(values) : values[k].job_id = id})
                row == values[i]
            IN  ExistingJobData(i, row.job_title, row.company, row.location,
                                row.url, row.probability, row.status)]

\* getExistingJobIds, on a loaded index.
allJobIds(map) == DOMAIN map

\* jobsNeedingAnalysis without the test of the status.
jobsNeedingAnalysis_AnyStatus(map) ==
    {id \in DOMAIN map : map[id].probability = NULL}

jobsNeedingAnalysis(map) ==
    {id \in DOMAIN map : map[id].probability = NULL /\ map[id].status = JobStatus.NEW}

hasJobChanged(job, existing) ==
    \/ sanitizeCellValue(job.title) # existing.title
    \/ sanitizeCellValue(job.company) # existing.company
    \/ sanitizeCellValue(job.location) # existing.location
    \/ job.url # existing.url

\* The classification loop of appendJobs.
RECURSIVE classifyFrom(_, _, _)
classifyFrom(jobs, map, acc) ==
    IF jobs = <<>> THEN acc
    ELSE LET job == Head(jobs)
         IN  IF job.jobId \notin DOMAIN map
             THEN classifyFrom(Tail(jobs), map,
                               [acc EXCEPT !.newJobs = Append(@, job)])
             ELSE IF hasJobChanged(job, map[job.jobId])
             THEN classifyFrom(Tail(jobs), map,
                               [acc EXCEPT !.jobsToUpdate =
                                   Append(@, [job |-> job,
                                              rowNumber |-> map[job.jobId].rowNumber])])
             ELSE classifyFrom(Tail(jobs), map,
                               [acc EXCEPT !.skippedCount = @ + 1])

classify(jobs, map) ==
    classifyFrom(jobs, map, [newJobs |-> <<>>, jobsToUpdate |-> <<>>, skippedCount |-> 0])

\* updateExistingJobs that also rewrites the status cell of the row.
updateExistingJobsData_WithStatus(jobsToUpdate, now) ==
    Concat([i \in DOMAIN jobsToUpdate |->
        LET job == jobsToUpdate[i].job
            rowNumber == jobsToUpdate[i].rowNumber
        IN  <<Cell(rowNumber, "status", JobStatus.NEW),
              Cell(rowNumber, "date_modified", now),
              Cell(rowNumber, "job_title", sanitizeCellValue(job.title)),
              Cell(rowNumber, "company", sanitizeCellValue(job.company)),
              Cell(rowNumber, "location", sanitizeCellValue(job.location)),
              Cell(rowNumber, "url", job.url)>>])

\* updateExistingJobs: the data of its batchUpdate request.
updateExistingJobsData(jobsToUpdate, now) ==
    Concat([i \in DOMAIN jobsToUpdate |->
        LET job == jobsToUpdate[i].job
            rowNumber == jobsToUpdate[i].rowNumber
        IN  <<Cell(rowNumber, "date_modified", now),
              Cell(rowNumber, "job_title", sanitizeCellValue(job.title)),
              Cell(rowNumber, "company", sanitizeCellValue(job.company)),
              Cell(rowNumber, "location", sanitizeCellValue(job.location)),
              Cell(rowNumber, "url", job.url)>>])

\* updateExistingJobs: the index after its cache update.
RECURSIVE updateExistingJobsCache(_, _)
updateExistingJobsCache(map, jobsToUpdate) ==
    IF jobsToUpdate = <<>> THEN map
    ELSE LET job == Head(jobsToUpdate).job
             has == job.jobId \in DOMAIN map
             entry == ExistingJobData(Head(jobsToUpdate).rowNumber,
                          sanitizeCellValue(job.title),
                          sanitizeCellValue(job.company),
                          sanitizeCellValue(job.location),
                          job.url,
                          IF has THEN map[job.jobId].probability ELSE NULL,
                          IF has THEN map[job.jobId].status ELSE "")
         IN  updateExistingJobsCache(
                 [id \in DOMAIN map \cup {job.jobId} |->
                     IF id = job.jobId THEN entry ELSE map[id]],
                 Tail(jobsToUpdate))

formatRequirementsFraction(met, total) ==
    IF met = NULL \/ total = NULL THEN <<>>
    ELSE <<ToString(met), "/", ToString(total)>>

RECURSIVE join(_)
join(gaps) ==
    IF Len(gaps) = 1 THEN Head(gaps)
    ELSE Head(gaps) \o <<";", " ">> \o join(Tail(gaps))

\* formatRequirementsGaps without the sanitizer.
formatRequirementsGaps_Raw(gaps) ==
    IF Len(gaps) = 0 THEN <<>> ELSE join(gaps)

formatRequirementsGaps(gaps) ==
    IF Len(gaps) = 0 THEN <<>> ELSE sanitizeCellValue(join(gaps))

\* jobToRow that ignores the status of the match result.
jobToRow_StatusNew(job, mr, now) ==
    LET has == mr # <<>>
    IN  [job_id |-> job.jobId,
         status |-> JobStatus.NEW,
         date_added |-> now,
         date_modified |-> now,
         probability |-> IF has THEN mr[1].probability ELSE NULL,
         gemini_score |-> IF has THEN mr[1].geminiProbability ELSE NULL,
         gemini_argument |-> IF has /\ mr[1].geminiReasoning # <<>>
                             THEN sanitizeCellValue(mr[1].geminiReasoning) ELSE <<>>,
         claude_score |-> IF has THEN mr[1].claudeProbability ELSE NULL,
         claude_argument |-> IF has /\ mr[1].claudeReasoning # <<>>
                             THEN sanitizeCellValue(mr[1].claudeReasoning) ELSE <<>>,
         job_title |-> sanitizeCellValue(job.title),
         company |-> sanitizeCellValue(job.company),
         location |-> sanitizeCellValue(job.location),
         url |-> job.url,
         notes |-> <<>>,
         requirements_met |->
             IF has THEN formatRequirementsFraction(mr[1].requirementsMet,
                                                    mr[1].requirementsTotal)
             ELSE <<>>,
         requirements_gaps |->
             IF has THEN formatRequirementsGaps(mr[1].requirementsGaps) ELSE <<>>]

\* jobToRow; mr is matchResults?.get(job.jobId), a sequence of 0 or 1 result.
jobToRow(job, mr, now) ==
    LET has == mr # <<>>
    IN  [job_id |-> job.jobId,
         status |-> IF has THEN mr[1].status ELSE JobStatus.NEW,
         date_added |-> now,
         date_modified |-> now,
         probability |-> IF has THEN mr[1].probability ELSE NULL,
         gemini_score |-> IF has THEN mr[1].geminiProbability ELSE NULL,
         gemini_argument |-> IF has /\ mr[1].geminiReasoning # <<>>
                             THEN sanitizeCellValue(mr[1].geminiReasoning) ELSE <<>>,
         claude_score |-> IF has THEN mr[1].claudeProbability ELSE NULL,
         claude_argument |-> IF has /\ mr[1].claudeReasoning # <<>>
                             THEN sanitizeCellValue(mr[1].claudeReasoning) ELSE <<>>,
         job_title |-> sanitizeCellValue(job.title),
         company |-> sanitizeCellValue(job.company),
         location |-> sanitizeCellValue(job.location),
         url |-> job.url,
         notes |-> <<>>,
         requirements_met |->
             IF has THEN formatRequirementsFraction(mr[1].requirementsMet,
                                                    mr[1].requirementsTotal)
             ELSE <<>>,
         requirements_gaps |->
             IF has THEN formatRequirementsGaps(mr[1].requirementsGaps) ELSE <<>>]

\* The cells of the range A<nextRow>:P<nextRow + n - 1> with their values.
appendData(newRows, nextRow) ==
    Concat([i \in DOMAIN newRows |->
        [c \in DOMAIN COLUMN_HEADERS |->
            Cell(nextRow + i - 1, COLUMN_HEADERS[c], newRows[i][COLUMN_HEADERS[c]])]])

\* appendJobs: the index after the cache update that follows the append.
RECURSIVE appendJobsCache(_, _, _, _, _)
appendJobsCache(map, jobs, i, rowCount, mrs) ==
    IF i > Len(jobs) THEN map
    ELSE LET job == jobs[i]
             mr == mapGet(mrs, job.jobId)
             entry == ExistingJobData(rowCount + (i - 1) + 1,
                          job.title, job.company, job.location, job.url,
                          IF mr # <<>> THEN mr[1].probability ELSE NULL,
                          IF mr # <<>> THEN mr[1].status ELSE JobStatus.NEW)
         IN  appendJobsCache(
                 [id \in DOMAIN map \cup {job.jobId} |->
                     IF id = job.jobId THEN entry ELSE map[id]],
                 jobs, i + 1, rowCount, mrs)

\* updateExistingJobProbabilities: the results it selects for an update.
probabilityUpdates(map, results) ==
    LET sel == SelectSeq(results, LAMBDA r :
                   /\ r.jobId \in DOMAIN map
                   /\ map[r.jobId].probability = NULL
                   /\ r.probability # NULL)
    IN  [i \in DOMAIN sel |->
            [jobId |-> sel[i].jobId, rowNumber |-> map[sel[i].jobId].rowNumber,
             matchResult |-> sel[i]]]

\* updateExistingJobProbabilities that writes LOW MATCH with every probability.
probabilityUpdatesData_AlwaysStatus(map, jobsToUpdate) ==
    Concat([i \in DOMAIN jobsToUpdate |->
        LET rowNumber == jobsToUpdate[i].rowNumber
            matchResult == jobsToUpdate[i].matchResult
        IN  <<Cell(rowNumber, "probability", matchResult.probability),
              Cell(rowNumber, "requirements_met",
                   formatRequirementsFraction(matchResult.requirementsMet,
                                              matchResult.requirementsTotal)),
              Cell(rowNumber, "requirements_gaps",
                   formatRequirementsGaps(matchResult.requirementsGaps)),
              Cell(rowNumber, "status", JobStatus.LOW_MATCH)>>])

\* updateExistingJobProbabilities: the data of its batchUpdate request.
probabilityUpdatesData(map, jobsToUpdate) ==
    Concat([i \in DOMAIN jobsToUpdate |->
        LET rowNumber == jobsToUpdate[i].rowNumber
            matchResult == jobsToUpdate[i].matchResult
            found == jobsToUpdate[
                CHOOSE k \in DOMAIN jobsToUpdate :
                    /\ jobsToUpdate[k].rowNumber = rowNumber
                    /\ \A m \in 1..(k - 1) : jobsToUpdate[m].rowNumber # rowNumber]
            has == found.jobId \in DOMAIN map
        IN  <<Cell(rowNumber, "probability", matchResult.probability),
              Cell(rowNumber, "requirements_met",
                   formatRequirementsFraction(matchResult.requirementsMet,
                                              matchResult.requirementsTotal)),
              Cell(rowNumber, "requirements_gaps",
                   formatRequirementsGaps(matchResult.requirementsGaps))>>
            \o (IF /\ has
                   /\ map[found.jobId].status = JobStatus.NEW
                   /\ matchResult.status = JobStatus.LOW_MATCH
                THEN <<Cell(rowNumber, "status", JobStatus.LOW_MATCH)>>
                ELSE <<>>)])

\* updateExistingJobProbabilities: the index after its cache update.
RECURSIVE probabilityUpdatesCache(_, _)
probabilityUpdatesCache(map, jobsToUpdate) ==
    IF jobsToUpdate = <<>> THEN map
    ELSE LET u == Head(jobsToUpdate)
             next ==
                 IF u.jobId \notin DOMAIN map THEN map
                 ELSE [map EXCEPT
                         ![u.jobId].probability = u.matchResult.probability,
                         ![u.jobId].status =
                             IF @ = JobStatus.NEW
                                /\ u.matchResult.status = JobStatus.LOW_MATCH
                             THEN JobStatus.LOW_MATCH ELSE @]
         IN  probabilityUpdatesCache(next, Tail(jobsToUpdate))

-----------------------------------------------------------------------------
(* processJobAlerts, one action per stretch between two awaits *)

ProcessingResult ==
    [success |-> FALSE, httpStatus |-> 0, jobsAnalyzed |-> 0, jobsLowMatch |-> 0,
     jobsNotAvailable |-> 0, jobsAdded |-> 0, jobsUpdated |-> 0, jobsSkipped |-> 0,
     error |-> ""]

\* matchResults of index.ts 181: undefined until analyzeJobs returns;
\* matchError tells that the catch of index.ts 233-238 has logged a failure.
NoMatchResults == [defined |-> FALSE, results |-> <<>>, matchError |-> FALSE]

NoWriteResult == [jobsAdded |-> 0, jobsUpdated |-> 0, jobsSkipped |-> 0]

NoIndex == [isNull |-> TRUE, map |-> <<>>]

WriteRequest(op, data) == [op |-> op, data |-> data]

\* The human status the editor picks in the model.
EditorStatuses == {JobStatus.APPLIED}

\* The state before the first run: the sheet as ensureSheetSetup leaves it.
RunInit ==
    /\ sheet = <<HeaderRow>>
    /\ existingJobs = NoIndex
    /\ pc = "idle"
    /\ clock = 0
    /\ uniqueJobs = <<>>
    /\ jobsToAnalyze = <<>>
    /\ matchResults = NoMatchResults
    /\ newJobs = <<>>
    /\ rows = <<>>
    /\ currentRowCount = 0
    /\ writeResult = NoWriteResult
    /\ result = ProcessingResult
    /\ writes = <<>>
    /\ applied = {}
    /\ edits = 0

Init ==
    /\ RunInit
    /\ fn = "none"
    /\ arg = <<>>
    /\ ret = <<>>

\* index.ts 133-161: the jobs parsed from the emails, and the batch left by
\* the deduplication across the emails.
parseAndDeduplicate(emails) ==
    LET allJobs == Concat([i \in DOMAIN emails |-> parseEmail(emails[i])])
    IN  [emailsProcessed |-> Len(emails),
         jobsFound |-> Len(allJobs),
         uniqueJobs |-> IF Len(allJobs) = 0 THEN <<>> ELSE deduplicateBy(allJobs)]

\* What the unread emails of a run can amount to: every inbox of at most
\* MaxEmails emails of at most MaxCards job cards each, seen through
\* parseAndDeduplicate.
Inbox ==
    {LET b == parseAndDeduplicate(emails)
     IN  [noEmails |-> b.emailsProcessed = 0, uniqueJobs |-> b.uniqueJobs] :
        emails \in SeqUpTo(SeqUpTo(Job, MaxCards), MaxEmails)}

\* index.ts 90-164: a run starts, fetches the unread emails, parses them and
\* deduplicates the jobs across the emails; a new SheetsWriter is created.
FetchJobAlertEmails ==
    /\ pc = "idle"
    /\ clock < MaxRuns
    /\ \E batch \in Inbox :
        /\ uniqueJobs' = batch.uniqueJobs
        /\ IF batch.noEmails
           THEN /\ pc' = "idle"
                /\ result' = [ProcessingResult EXCEPT !.success = TRUE,
                                                      !.httpStatus = 200]
           ELSE /\ pc' = IF Len(batch.uniqueJobs) = 0 THEN "mark" ELSE "load"
                /\ result' = ProcessingResult
    /\ applied' = IF applied = Range(uniqueJobs') THEN applied ELSE {}
    /\ clock' = clock + 1
    /\ existingJobs' = NoIndex
    /\ UNCHANGED <<sheet, jobsToAnalyze, matchResults, newJobs, rows,
                   currentRowCount, writeResult, writes, edits>>
    /\ UNCHANGED harness

\* GetExistingJobIds that has every existing job of the batch analyzed again.
GetExistingJobIds_WholeBatch ==
    /\ pc = "load"
    /\ \E resumeDocId \in BOOLEAN :
        LET map == IF existingJobs.isNull THEN loadExistingJobs(sheet)
                   ELSE existingJobs.map
            existingJobIds == allJobIds(map)
            needing == jobsNeedingAnalysis(map)
            new == SelectSeq(uniqueJobs, LAMBDA j : j.jobId \notin existingJobIds)
            existingJobsInBatch ==
                SelectSeq(uniqueJobs, LAMBDA j : j.jobId \in existingJobIds)
            toAnalyze == new \o existingJobsInBatch
        IN  /\ existingJobs' = [isNull |-> FALSE, map |-> map]
            /\ jobsToAnalyze' = IF resumeDocId THEN toAnalyze ELSE <<>>
            /\ pc' = IF resumeDocId /\ Len(toAnalyze) > 0 THEN "analyze" ELSE "append"
    /\ UNCHANGED <<sheet, clock, uniqueJobs, matchResults, newJobs, rows,
                   currentRowCount, writeResult, result, writes, applied, edits>>
    /\ UNCHANGED harness

\* index.ts 165-186: getExistingJobIds loads the index; the jobs to analyze
\* are the new ones and the existing ones that still need an analysis.
GetExistingJobIds ==
    /\ pc = "load"
    /\ \E resumeDocId \in BOOLEAN :
        LET map == IF existingJobs.isNull THEN loadExistingJobs(sheet)
                   ELSE existingJobs.map
            existingJobIds == allJobIds(map)
            needing == jobsNeedingAnalysis(map)
            new == SelectSeq(uniqueJobs, LAMBDA j : j.jobId \notin existingJobIds)
            existingJobsInBatch ==
                SelectSeq(uniqueJobs, LAMBDA j : j.jobId \in existingJobIds)
            toAnalyze == new \o SelectSeq(existingJobsInBatch,
                                          LAMBDA j : j.jobId \in needing)
        IN  /\ existingJobs' = [isNull |-> FALSE, map |-> map]
            /\ jobsToAnalyze' = IF resumeDocId THEN toAnalyze ELSE <<>>
            /\ pc' = IF resumeDocId /\ Len(toAnalyze) > 0 THEN "analyze" ELSE "append"
    /\ UNCHANGED <<sheet, clock, uniqueJobs, matchResults, newJobs, rows,
                   currentRowCount, writeResult, result, writes, applied, edits>>
    /\ UNCHANGED harness

\* AnalyzeJobs without the try/catch of index.ts 216-238: a failure of
\* loadResume reaches the catch of the run.
AnalyzeJobs_Rethrow ==
    /\ pc = "analyze"
    /\ \E resume \in {"throws", "empty", "loaded"} :
       \E outcomes \in [1..Len(jobsToAnalyze) -> ProviderOutcome] :
        IF resume = "throws"
        THEN /\ matchResults' = [NoMatchResults EXCEPT !.matchError = TRUE]
             /\ result' = [result EXCEPT !.httpStatus = 500, !.error = "loadResume"]
             /\ pc' = "idle"
        ELSE LET results == analyzeJobs(jobsToAnalyze, resume = "loaded", outcomes)
             IN  /\ matchResults' = [defined |-> TRUE, results |-> results,
                                        matchError |-> FALSE]
                 /\ result' = [result EXCEPT
                        !.jobsAnalyzed =
                            Len(SelectSeq(results, LAMBDA r : r.probability # NULL)),
                        !.jobsLowMatch =
                            Len(SelectSeq(results,
                                LAMBDA r : r.status = JobStatus.LOW_MATCH)),
                        !.jobsNotAvailable =
                            Len(SelectSeq(results,
                                LAMBDA r : r.status = JobStatus.NOT_AVAILABLE))]
                 /\ pc' = "append"
    /\ jobsToAnalyze' = <<>>
    /\ UNCHANGED <<sheet, existingJobs, clock, uniqueJobs, newJobs,
                   rows, currentRowCount, writeResult, writes, applied, edits>>
    /\ UNCHANGED harness

\* index.ts 216-238: loadResume and analyzeJobs; a failure of loadResume is
\* caught and the run continues without match results.  jobsToAnalyze is not
\* read again after the call.
AnalyzeJobs ==
    /\ pc = "analyze"
    /\ \E resume \in {"throws", "empty", "loaded"} :
       \E outcomes \in [1..Len(jobsToAnalyze) -> ProviderOutcome] :
        IF resume = "throws"
        THEN /\ matchResults' = [NoMatchResults EXCEPT !.matchError = TRUE]
             /\ result' = result
        ELSE LET results == analyzeJobs(jobsToAnalyze, resume = "loaded", outcomes)
             IN  /\ matchResults' = [defined |-> TRUE, results |-> results,
                                        matchError |-> FALSE]
                 /\ result' = [result EXCEPT
                        !.jobsAnalyzed =
                            Len(SelectSeq(results, LAMBDA r : r.probability # NULL)),
                        !.jobsLowMatch =
                            Len(SelectSeq(results,
                                LAMBDA r : r.status = JobStatus.LOW_MATCH)),
                        !.jobsNotAvailable =
                            Len(SelectSeq(results,
                                LAMBDA r : r.status = JobStatus.NOT_AVAILABLE))]
    /\ jobsToAnalyze' = <<>>
    /\ pc' = "append"
    /\ UNCHANGED <<sheet, existingJobs, clock, uniqueJobs, newJobs,
                   rows, currentRowCount, writeResult, writes, applied, edits>>
    /\ UNCHANGED harness

\* writer.ts 92-126 (and 164-173 when there is no new job): appendJobs
\* classifies the batch and sends the update of the changed jobs.
AppendJobsClassify ==
    /\ pc = "append"
    /\ LET map == IF existingJobs.isNull THEN loadExistingJobs(sheet)
                  ELSE existingJobs.map
           c == classify(uniqueJobs, map)
           data == updateExistingJobsData(c.jobsToUpdate, clock)
           updating == Len(c.jobsToUpdate) > 0
       IN  /\ newJobs' = c.newJobs
           /\ sheet' = IF updating THEN valuesUpdate(sheet, data) ELSE sheet
           /\ writes' = IF updating THEN Append(writes, WriteRequest("update", data))
                        ELSE writes
           /\ existingJobs' =
                  [isNull |-> FALSE,
                   map |-> IF updating THEN updateExistingJobsCache(map, c.jobsToUpdate)
                           ELSE map]
           /\ writeResult' = [jobsAdded |-> Len(c.newJobs),
                               jobsUpdated |-> Len(c.jobsToUpdate),
                               jobsSkipped |-> c.skippedCount]
           /\ IF Len(c.newJobs) > 0
              THEN /\ pc' = "count"
                   /\ UNCHANGED <<result, applied>>
              ELSE /\ pc' = "backfill"
                   /\ result' = [result EXCEPT !.jobsAdded = 0,
                                               !.jobsUpdated = Len(c.jobsToUpdate),
                                               !.jobsSkipped = c.skippedCount]
                   /\ applied' = Range(uniqueJobs)
    /\ UNCHANGED <<clock, uniqueJobs, jobsToAnalyze, matchResults, rows,
                   currentRowCount, edits>>
    /\ UNCHANGED harness

\* writer.ts 128-138: the rows of the new jobs are built and the row count
\* is read from column A.
AppendJobsReadRowCount ==
    /\ pc = "count"
    /\ rows' = [i \in DOMAIN newJobs |->
                   jobToRow(newJobs[i], mapGet(matchResults, newJobs[i].jobId), clock)]
    /\ currentRowCount' = IF valuesGetColumnA(sheet) = 0 THEN 1
                          ELSE valuesGetColumnA(sheet)
    /\ pc' = "write"
    /\ UNCHANGED <<sheet, existingJobs, clock, uniqueJobs, jobsToAnalyze, matchResults,
                   newJobs, writeResult, result, writes, applied, edits>>
    /\ UNCHANGED harness

\* writer.ts 140-173: the new rows are written from nextRow on, the index is
\* updated and appendJobs returns.
AppendJobsWrite ==
    /\ pc = "write"
    /\ LET nextRow == currentRowCount + 1
           data == appendData(rows, nextRow)
       IN  /\ sheet' = valuesUpdate(sheet, data)
           /\ writes' = Append(writes, WriteRequest("append", data))
    /\ existingJobs' = [existingJobs EXCEPT
           !.map = appendJobsCache(@, newJobs, 1, currentRowCount, matchResults)]
    /\ result' = [result EXCEPT !.jobsAdded = writeResult.jobsAdded,
                                !.jobsUpdated = writeResult.jobsUpdated,
                                !.jobsSkipped = writeResult.jobsSkipped]
    /\ applied' = Range(uniqueJobs)
    /\ pc' = "backfill"
    /\ UNCHANGED <<clock, uniqueJobs, jobsToAnalyze, matchResults, newJobs, rows,
                   currentRowCount, writeResult, edits>>
    /\ UNCHANGED harness

\* index.ts 253-259 and writer.ts 180-259: updateExistingJobProbabilities.
UpdateExistingJobProbabilities ==
    /\ pc = "backfill"
    /\ LET jobsToUpdate == probabilityUpdates(existingJobs.map, matchResults.results)
           data == probabilityUpdatesData(existingJobs.map, jobsToUpdate)
           called == matchResults.defined /\ Len(matchResults.results) > 0
           writing == called /\ Len(jobsToUpdate) > 0
       IN  /\ sheet' = IF writing THEN valuesUpdate(sheet, data) ELSE sheet
           /\ writes' = IF writing THEN Append(writes, WriteRequest("backfill", data))
                        ELSE writes
           /\ existingJobs' =
                  IF writing
                  THEN [existingJobs EXCEPT
                           !.map = probabilityUpdatesCache(@, jobsToUpdate)]
                  ELSE existingJobs
    /\ pc' = "mark"
    /\ UNCHANGED <<clock, uniqueJobs, jobsToAnalyze, matchResults, newJobs, rows,
                   currentRowCount, writeResult, result, applied, edits>>
    /\ UNCHANGED harness

\* index.ts 148-153 and 261-277: the emails are marked as processed and the
\* run responds 200; the writer and the locals of the run are dropped.
MarkAsProcessed ==
    /\ pc = "mark"
    /\ result' = [result EXCEPT !.success = TRUE, !.httpStatus = 200]
    /\ pc' = "idle"
    /\ existingJobs' = NoIndex
    /\ uniqueJobs' = <<>>
    /\ jobsToAnalyze' = <<>>
    /\ matchResults' = NoMatchResults
    /\ newJobs' = <<>>
    /\ rows' = <<>>
    /\ currentRowCount' = 0
    /\ writeResult' = NoWriteResult
    /\ writes' = <<>>
    /\ UNCHANGED <<sheet, clock, applied, edits>>
    /\ UNCHANGED harness

\* index.ts 278-287: an awaited call to Gmail or to the Sheets API throws
\* (the fetch of the emails when pc = "idle", otherwise the call the run is
\* about to make); the catch of the run responds 500 with the message of the
\* error, here the name of the step.  What was written before stays written.
TransportFailure ==
    /\ pc \in {"idle", "load", "append", "count", "write", "backfill", "mark"}
    /\ pc = "idle" => clock < MaxRuns
    /\ clock' = IF pc = "idle" THEN clock + 1 ELSE clock
    /\ result' = [(IF pc = "idle" THEN ProcessingResult ELSE result)
                      EXCEPT !.httpStatus = 500,
                             !.error = IF pc = "idle" THEN "fetch" ELSE pc]
    /\ pc' = "idle"
    /\ existingJobs' = NoIndex
    /\ uniqueJobs' = <<>>
    /\ jobsToAnalyze' = <<>>
    /\ matchResults' = NoMatchResults
    /\ newJobs' = <<>>
    /\ rows' = <<>>
    /\ currentRowCount' = 0
    /\ writeResult' = NoWriteResult
    /\ writes' = <<>>
    /\ applied' = {}
    /\ UNCHANGED <<sheet, edits>>
    /\ UNCHANGED harness

-----------------------------------------------------------------------------
(* The human editor of the sheet, acting at any moment *)

\* The editor sets the status of a job row from the dropdown.
EditorSetsStatus ==
    /\ edits < MaxEdits
    /\ \E r \in 2..Len(sheet) : \E s \in EditorStatuses :
        /\ sheet[r].job_id # ""
        /\ sheet[r].status # s
        /\ sheet' = [sheet EXCEPT ![r].status = s]
    /\ edits' = edits + 1
    /\ applied' = {}
    /\ UNCHANGED <<existingJobs, pc, clock, uniqueJobs, jobsToAnalyze, matchResults,
                   newJobs, rows, currentRowCount, writeResult, result, writes>>
    /\ UNCHANGED harness

\* The editor types a note into the notes cell of a job row, or into the first
\* free row below the table (a row that has no job_id).
EditorWritesNote ==
    /\ edits < MaxEdits
    /\ \E r \in 2..(Len(sheet) + 1) :
        /\ r <= Len(sheet) => sheet[r].notes = <<>>
        /\ sheet' = valuesUpdate(sheet, <<Cell(r, "notes", <<"n">>)>>)
    /\ edits' = edits + 1
    /\ applied' = {}
    /\ UNCHANGED <<existingJobs, pc, clock, uniqueJobs, jobsToAnalyze, matchResults,
                   newJobs, rows, currentRowCount, writeResult, result, writes>>
    /\ UNCHANGED harness

Next ==
    \/ FetchJobAlertEmails
    \/ GetExistingJobIds
    \/ AnalyzeJobs
    \/ AppendJobsClassify
    \/ AppendJobsReadRowCount
    \/ AppendJobsWrite
    \/ UpdateExistingJobProbabilities
    \/ MarkAsProcessed
    \/ EditorSetsStatus
    \/ EditorWritesNote

Spec == Init /\ [][Next]_vars


-----------------------------------------------------------------------------
(* Deduplication applied to every list of at most MaxItems records *)

InitDedup ==
    /\ RunInit
    /\ fn = "input"
    /\ arg \in SeqUpTo(Job, MaxItems)
    /\ ret = <<>>

\* parseEmail on an email whose cards extract to the records of arg.
ParseEmail ==
    /\ fn = "input"
    /\ fn' = "parseEmail"
    /\ ret' = parseEmail(arg)
    /\ UNCHANGED <<arg, run>>

\* parseEmail on an email whose cards are the records it returned.
ParseEmailAgain ==
    /\ fn = "parseEmail"
    /\ fn' = "parseEmailAgain"
    /\ arg' = ret
    /\ ret' = parseEmail(ret)
    /\ UNCHANGED run

\* deduplicateBy(arg, job => job.jobId).
DeduplicateBy ==
    /\ fn = "input"
    /\ fn' = "deduplicateBy"
    /\ ret' = deduplicateBy(arg)
    /\ UNCHANGED <<arg, run>>

\* deduplicateBy on the list it returned.
DeduplicateByAgain ==
    /\ fn = "deduplicateBy"
    /\ fn' = "deduplicateByAgain"
    /\ arg' = ret
    /\ ret' = deduplicateBy(ret)
    /\ UNCHANGED run

NextDedup ==
    \/ ParseEmail
    \/ ParseEmailAgain
    \/ DeduplicateBy
    \/ DeduplicateByAgain

SpecDedup == InitDedup /\ [][NextDedup]_vars

-----------------------------------------------------------------------------
(* analyzeJob applied to every outcome of the provider call *)

\* The probabilities a provider returns: rounded and clamped to 0..100.
Percent == 0..100

InitAnalyzeJob ==
    /\ RunInit
    /\ fn = "input"
    /\ arg \in [job : Job, resumeLoaded : BOOLEAN,
                 outcome : {ProviderNull, ProviderThrow} \cup Percent]
    /\ ret = <<>>

\* analyzeJob(arg.job): the default result when no resume text is cached,
\* else the result of the provider call.
AnalyzeJob ==
    /\ fn = "input"
    /\ fn' = "analyzeJob"
    /\ ret' = IF ~arg.resumeLoaded THEN createDefaultResult(arg.job.jobId)
              ELSE analyzeJob(arg.job, arg.outcome)
    /\ UNCHANGED <<arg, run>>

NextAnalyzeJob == AnalyzeJob

SpecAnalyzeJob == InitAnalyzeJob /\ [][NextAnalyzeJob]_vars

-----------------------------------------------------------------------------
(* The dual-model analysis of one job, for every pair of provider outcomes *)

InitAnalyzeJobDual ==
    /\ RunInit
    /\ fn = "input"
    /\ arg \in [job : Job,
                 gemini : {ProviderNull, ProviderThrow} \cup Percent,
                 claude : {ProviderNull, ProviderThrow} \cup Percent]
    /\ ret = <<>>

AnalyzeJobDual ==
    /\ fn = "input"
    /\ fn' = "analyzeJobDual"
    /\ ret' = analyzeJobDual(arg.job, arg.gemini, arg.claude)
    /\ UNCHANGED <<arg, run>>

NextAnalyzeJobDual == AnalyzeJobDual

SpecAnalyzeJobDual == InitAnalyzeJobDual /\ [][NextAnalyzeJobDual]_vars

-----------------------------------------------------------------------------
(* analyzeJobs, one step per provider call, on batches of up to MaxBatch jobs *)

\* The batches handed to analyzeJobs: jobs with pairwise distinct ids, as
\* deduplicateBy leaves them.
Batches ==
    LET ids == {ToString(i) : i \in 1..MaxBatch}
        job(id) == [jobId |-> id, title |-> <<"A">>, company |-> <<"C">>,
                    location |-> <<"L">>, url |-> jobViewUrl(id)]
    IN  {[i \in DOMAIN b |-> job(b[i])] :
            b \in {c \in SeqUpTo(ids, MaxBatch) :
                      \A i, j \in DOMAIN c : i # j => c[i] # c[j]}}

InitAnalyzeJobs ==
    /\ RunInit
    /\ fn = "input"
    /\ arg \in [jobs : Batches, resumeLoaded : BOOLEAN]
    /\ ret = [results |-> <<>>, i |-> 0, outcomes |-> <<>>, inFlight |-> {},
              calls |-> <<>>]

\* analyzer.ts 138-151: the empty batch and the batch without a resume text
\* return at once; else the loop starts.
AnalyzeJobsStart ==
    /\ fn = "input"
    /\ IF Len(arg.jobs) = 0
       THEN fn' = "returned" /\ ret' = ret
       ELSE IF ~arg.resumeLoaded
       THEN /\ fn' = "returned"
            /\ ret' = [ret EXCEPT !.results = defaultResultsFrom(arg.jobs, 1, <<>>)]
       ELSE fn' = "loop" /\ ret' = [ret EXCEPT !.i = 1]
    /\ UNCHANGED <<arg, run>>

\* AnalyzeJobsCall starting the calls of all the jobs left at once.
AnalyzeJobsCall_All ==
    /\ fn = "loop"
    /\ ret.i <= Len(arg.jobs)
    /\ fn' = "await"
    /\ ret' = [ret EXCEPT !.inFlight = @ \cup (ret.i)..Len(arg.jobs),
                          !.calls = @ \o [k \in 1..(Len(arg.jobs) - ret.i + 1) |->
                                             ret.i + k - 1]]
    /\ UNCHANGED <<arg, run>>

\* analyzer.ts 155-166: a turn of the loop starts the provider call of job i
\* and awaits it.
AnalyzeJobsCall ==
    /\ fn = "loop"
    /\ ret.i <= Len(arg.jobs)
    /\ fn' = "await"
    /\ ret' = [ret EXCEPT !.inFlight = @ \cup {ret.i}, !.calls = Append(@, ret.i)]
    /\ UNCHANGED <<arg, run>>

\* analyzer.ts 166-172: the awaited provider call of job i returns a
\* probability, returns null or throws; the result is stored and the loop
\* goes on.
AnalyzeJobsStep ==
    /\ fn = "await"
    /\ \E outcome \in ProviderOutcome :
        ret' = [results |-> mapSet(ret.results, analyzeJob(arg.jobs[ret.i], outcome)),
                i |-> ret.i + 1,
                outcomes |-> Append(ret.outcomes, outcome),
                inFlight |-> ret.inFlight \ {ret.i},
                calls |-> ret.calls]
    /\ fn' = "loop"
    /\ UNCHANGED <<arg, run>>

\* analyzer.ts 174-177: the loop is over and the map is returned.
AnalyzeJobsReturn ==
    /\ fn = "loop"
    /\ ret.i > Len(arg.jobs)
    /\ fn' = "returned"
    /\ UNCHANGED <<arg, ret, run>>

NextAnalyzeJobs ==
    \/ AnalyzeJobsStart
    \/ AnalyzeJobsCall
    \/ AnalyzeJobsStep
    \/ AnalyzeJobsReturn

\* Every awaited provider call returns or throws, so the loop keeps going.
SpecAnalyzeJobs ==
    InitAnalyzeJobs /\ [][NextAnalyzeJobs]_vars /\ WF_vars(NextAnalyzeJobs)

-----------------------------------------------------------------------------
(* A run over a store that a first run has filled, with a batch of one or two
   jobs out of MaxBatch ids *)

\* The sheets a first run leaves: the header alone, or the header and the
\* row of one job, appended without a match result or with the result of
\* its analysis.
StoredSheets ==
    {<<HeaderRow>>} \cup
    UNION {{valuesUpdate(<<HeaderRow>>, appendData(<<jobToRow(job, mr, 1)>>, 2)) :
               mr \in {<<>>} \cup {<<analyzeJob(job, outcome)>> :
                                       outcome \in ProviderOutcome}} :
           job \in Job}

InitStoredRun ==
    /\ sheet \in StoredSheets
    /\ clock = 1
    /\ existingJobs = NoIndex
    /\ pc = "idle"
    /\ uniqueJobs = <<>>
    /\ jobsToAnalyze = <<>>
    /\ matchResults = NoMatchResults
    /\ newJobs = <<>>
    /\ rows = <<>>
    /\ currentRowCount = 0
    /\ writeResult = NoWriteResult
    /\ result = ProcessingResult
    /\ writes = <<>>
    /\ applied = {}
    /\ edits = 0
    /\ fn = "none"
    /\ arg = <<>>
    /\ ret = <<>>

\* index.ts 90-164: a run starts with emails that amount to a batch of one
\* or two unique jobs.
FetchBatch ==
    /\ pc = "idle"
    /\ clock < MaxRuns
    /\ \E batch \in {b \in Batches : Len(b) \in {1, 2}} : uniqueJobs' = batch
    /\ pc' = "load"
    /\ result' = ProcessingResult
    /\ applied' = {}
    /\ clock' = clock + 1
    /\ existingJobs' = NoIndex
    /\ UNCHANGED <<sheet, jobsToAnalyze, matchResults, newJobs, rows,
                   currentRowCount, writeResult, writes, edits>>
    /\ UNCHANGED harness

NextStoredRun ==
    \/ FetchBatch
    \/ GetExistingJobIds
    \/ AnalyzeJobs
    \/ AppendJobsClassify
    \/ AppendJobsReadRowCount
    \/ AppendJobsWrite
    \/ UpdateExistingJobProbabilities
    \/ MarkAsProcessed

SpecStoredRun == InitStoredRun /\ [][NextStoredRun]_vars

\* The same run with the failures of the calls to Gmail and to the Sheets API.
NextStoredRunWithFailures ==
    \/ NextStoredRun
    \/ TransportFailure

SpecStoredRunWithFailures == InitStoredRun /\ [][NextStoredRunWithFailures]_vars

-----------------------------------------------------------------------------
(* extractJobFromCard and cleanUrl, for every card of at most two links *)

\* The cards: no link, one link of any href, or any href followed by the
\* plain job-view link of a job.
Anchors ==
    [text : {<<>>, <<" ", "A", "B", " ">>, <<"A", "B", "C">>, <<" ", "D", "E", "F">>},
     bold : BOOLEAN, img : BOOLEAN]

Headings ==
    [h3 : {<<>>, <<"H", "3", " ">>, <<" ", "H", "3", "x">>},
     h4 : {<<>>, <<"H", "4", "x">>},
     jobTitle : {<<>>, <<"J", "T", "x">>}]

\* Cards with one or two links to the job view of one job, or with a link to
\* the job view and one to somewhere else, with every content of the links
\* and of the headings; the cards with one link also with every source of
\* the company.
TitleCards ==
    {[links |-> <<jobViewUrl("1")>>, anchors |-> <<a>>,
      h3 |-> h.h3, h4 |-> h.h4, jobTitle |-> h.jobTitle,
      alt |-> alt, paragraphCompany |-> p, location |-> <<"L">>] :
        a \in Anchors, h \in Headings,
        alt \in {<<>>, Premium, <<"C">>}, p \in {<<>>, <<"P">>}}
    \cup
    {[links |-> <<jobViewUrl("1"), second>>, anchors |-> <<a, b>>,
      h3 |-> h.h3, h4 |-> h.h4, jobTitle |-> h.jobTitle,
      alt |-> <<"C">>, paragraphCompany |-> <<>>, location |-> <<"L">>] :
        second \in {jobViewUrl("1"), "https://www.linkedin.com/company/"},
        a \in Anchors, b \in Anchors, h \in Headings}

Cards ==
    {Card(<<>>)}
    \cup {Card(<<text(u)>>) : u \in Href}
    \cup {Card(<<text(u), jobViewUrl(id)>>) : u \in Href, id \in JobIds}
    \cup TitleCards

InitParser ==
    /\ RunInit
    /\ fn = "input"
    /\ arg \in Cards
    /\ ret = <<>>

ExtractJobFromCard ==
    /\ fn = "input"
    /\ fn' = "extracted"
    /\ ret' = extractJobFromCard(arg)
    /\ UNCHANGED <<arg, run>>

CleanUrl ==
    /\ fn = "input"
    /\ arg.links # <<>>
    /\ fn' = "cleaned"
    /\ ret' = <<cleanUrl(arg.links[1])>>
    /\ UNCHANGED <<arg, run>>

CleanUrlAgain ==
    /\ fn = "cleaned"
    /\ fn' = "cleaned again"
    /\ ret' = <<cleanUrl(ret[1])>>
    /\ UNCHANGED <<arg, run>>

NextParser ==
    \/ ExtractJobFromCard
    \/ CleanUrl
    \/ CleanUrlAgain

SpecParser == InitParser /\ [][NextParser]_vars

-----------------------------------------------------------------------------
(* sanitizeCellValue, for every text of at most MaxText characters *)

\* The characters of the texts: the four that start a formula, the
\* apostrophe and a letter.
TextChars == {"=", "+", "-", "@", "'", "A"}

InitSanitize ==
    /\ RunInit
    /\ fn = "input"
    /\ arg \in SeqUpTo(TextChars, MaxText)
    /\ ret = <<>>

SanitizeCellValue ==
    /\ fn = "input"
    /\ fn' = "sanitized"
    /\ ret' = sanitizeCellValue(arg)
    /\ UNCHANGED <<arg, run>>

NextSanitize == SanitizeCellValue

SpecSanitize == InitSanitize /\ [][NextSanitize]_vars

-----------------------------------------------------------------------------
(* The cells SheetsWriter builds for its three writes, for jobs and match
   results whose texts begin with any of the formula characters *)

\* The empty text, a plain text, and a text for each formula character.
FreeTexts == {<<>>, <<"A">>} \cup {<<c, "A">> : c \in FORMULA_INJECTION_CHARS}

\* Jobs with free texts, and match results with free provider arguments and
\* requirements gaps; mr is empty when the job has no match result.
WriterInputs ==
    [job : [jobId : {"1"}, title : FreeTexts, company : {<<"C">>, <<"@", "C">>},
            location : {<<>>, <<"-", "L">>}, url : {jobViewUrl("1")}],
     mr : {<<>>} \cup
          {<<[MatchResult("1", 40, JobStatus.LOW_MATCH, g) EXCEPT
                 !.geminiProbability = 40, !.geminiReasoning = g,
                 !.claudeProbability = 40, !.claudeReasoning = c,
                 !.requirementsMet = 1, !.requirementsTotal = 2,
                 !.requirementsGaps = gaps]>> :
              g \in FreeTexts, c \in {<<>>, <<"+", "r">>},
              gaps \in {<<>>} \cup {<<t>> : t \in FreeTexts \ {<<>>}}
                                \cup {<<t, <<"A">>>> : t \in FreeTexts \ {<<>>}}}]

InitWriter ==
    /\ RunInit
    /\ fn = "input"
    /\ arg \in WriterInputs
    /\ ret = <<>>

\* writer.ts 128-147: the cells of the row appended for a new job.
AppendWrite ==
    /\ fn = "input"
    /\ fn' = "append"
    /\ ret' = appendData(<<jobToRow(arg.job, arg.mr, 1)>>, 2)
    /\ UNCHANGED <<arg, run>>

\* writer.ts 276-310: the cells of the update of a changed job.
UpdateWrite ==
    /\ fn = "input"
    /\ fn' = "update"
    /\ ret' = updateExistingJobsData(<<[job |-> arg.job, rowNumber |-> 2]>>, 1)
    /\ UNCHANGED <<arg, run>>

\* writer.ts 180-245: the cells of the backfill for a stored job without a
\* probability.
BackfillWrite ==
    /\ fn = "input"
    /\ arg.mr # <<>>
    /\ fn' = "backfill"
    /\ ret' = probabilityUpdatesData(
                  [id \in {"1"} |->
                      ExistingJobData(2, arg.job.title, arg.job.company,
                                      arg.job.location, arg.job.url, NULL,
                                      JobStatus.NEW)],
                  <<[jobId |-> "1", rowNumber |-> 2, matchResult |-> arg.mr[1]]>>)
    /\ UNCHANGED <<arg, run>>

NextWriter ==
    \/ AppendWrite
    \/ UpdateWrite
    \/ BackfillWrite

SpecWriter == InitWriter /\ [][NextWriter]_vars

-----------------------------------------------------------------------------
(* parseJob and safeParseJob on the same data *)

JobData ==
    [jobId : {""} \cup JobIds, title : {<<>>, <<"A">>}, company : {<<>>, <<"C">>},
     location : {<<>>, <<"L">>}, url : {text(u) : u \in Href}]

InitValidator ==
    /\ RunInit
    /\ fn = "input"
    /\ arg \in JobData
    /\ ret = [strict |-> <<>>, safe |-> <<>>]

ParseJob ==
    /\ fn = "input"
    /\ ret.strict = <<>>
    /\ ret' = [ret EXCEPT !.strict = <<parseJob(arg)>>]
    /\ UNCHANGED <<fn, arg, run>>

SafeParseJob ==
    /\ fn = "input"
    /\ ret.safe = <<>>
    /\ ret' = [ret EXCEPT !.safe = <<safeParseJob(arg)>>]
    /\ UNCHANGED <<fn, arg, run>>

NextValidator ==
    \/ ParseJob
    \/ SafeParseJob

SpecValidator == InitValidator /\ [][NextValidator]_vars

-----------------------------------------------------------------------------
(* calculateMatchProbability of the two provider clients, for every pair of
   responses the provider gives to a first and a second request *)

InitProvider ==
    /\ RunInit
    /\ fn = "calling"
    /\ arg \in [client : {"gemini", "claude"},
                 responses : [1..2 -> ProviderResponse]]
    /\ ret = [attempt |-> 1, requests |-> <<>>, result |-> <<>>]

\* GenerateContent without the try/catch: an exception of the request leaves
\* calculateMatchProbability.
GenerateContent_NoCatch ==
    /\ fn = "calling"
    /\ arg.client = "gemini"
    /\ ret.attempt <= 2
    /\ LET response == arg.responses[ret.attempt]
           useGrounding == ret.attempt = 1
       IN  IF response.kind = "throws"
           THEN /\ fn' = "thrown"
                /\ ret' = [ret EXCEPT !.requests = Append(@, useGrounding)]
           ELSE IF response.kind # "number"
           THEN /\ ret' = [ret EXCEPT !.attempt = @ + 1,
                                      !.requests = Append(@, useGrounding)]
                /\ fn' = fn
           ELSE /\ ret' = [ret EXCEPT !.requests = Append(@, useGrounding),
                                      !.result = <<MatchAnalysisResult(response)>>]
                /\ fn' = "returned"
    /\ UNCHANGED <<arg, run>>

\* part_002 894-981: one attempt of the Gemini client, the first with search
\* grounding and the second without; a failed attempt goes on to the next.
GenerateContent ==
    /\ fn = "calling"
    /\ arg.client = "gemini"
    /\ ret.attempt <= 2
    /\ LET response == arg.responses[ret.attempt]
           useGrounding == ret.attempt = 1
       IN  IF response.kind # "number"
           THEN /\ ret' = [ret EXCEPT !.attempt = @ + 1,
                                      !.requests = Append(@, useGrounding)]
                /\ fn' = fn
           ELSE /\ ret' = [ret EXCEPT !.requests = Append(@, useGrounding),
                                      !.result = <<MatchAnalysisResult(response)>>]
                /\ fn' = "returned"
    /\ UNCHANGED <<arg, run>>

\* part_002 984-990: both attempts failed, null is returned.
AllAttemptsFailed ==
    /\ fn = "calling"
    /\ arg.client = "gemini"
    /\ ret.attempt > 2
    /\ fn' = "returned"
    /\ UNCHANGED <<arg, ret, run>>

\* analyzer.ts 469-547: the one request of the Claude client.
MessagesCreate ==
    /\ fn = "calling"
    /\ arg.client = "claude"
    /\ LET response == arg.responses[1]
       IN  ret' = [ret EXCEPT
                      !.requests = Append(@, FALSE),
                      !.result = IF response.kind # "number" THEN <<>>
                                 ELSE <<MatchAnalysisResult(response)>>]
    /\ fn' = "returned"
    /\ UNCHANGED <<arg, run>>

NextProvider ==
    \/ GenerateContent
    \/ AllAttemptsFailed
    \/ MessagesCreate

SpecProvider == InitProvider /\ [][NextProvider]_vars /\ WF_vars(NextProvider)

-----------------------------------------------------------------------------
(* One SheetsWriter instance and any sequence of up to MaxCalls calls of its
   five operations that need the index *)

\* The writer is created on a table with the header and up to two rows, each
\* the row of job 1 without a probability, the row of job 2 with one, or a
\* row that has a note and no job_id.
InitWriterCalls ==
    /\ sheet \in
         {<<HeaderRow>> \o rs :
            rs \in SeqUpTo(
              {[BlankRow EXCEPT !.job_id = "1", !.status = JobStatus.NEW,
                                !.job_title = <<"A">>, !.company = <<"C">>,
                                !.location = <<"L">>, !.url = jobViewUrl("1")],
               [BlankRow EXCEPT !.job_id = "2", !.status = JobStatus.LOW_MATCH,
                                !.probability = 40,
                                !.job_title = <<"A">>, !.company = <<"C">>,
                                !.location = <<"L">>, !.url = jobViewUrl("2")],
               [BlankRow EXCEPT !.notes = <<"n">>]}, 2)}
    /\ existingJobs = NoIndex
    /\ pc = "idle"
    /\ clock = 0
    /\ uniqueJobs = <<>>
    /\ jobsToAnalyze = <<>>
    /\ matchResults = NoMatchResults
    /\ newJobs = <<>>
    /\ rows = <<>>
    /\ currentRowCount = 0
    /\ writeResult = NoWriteResult
    /\ result = ProcessingResult
    /\ writes = <<>>
    /\ applied = {}
    /\ edits = 0
    /\ fn = "none"
    /\ arg = <<>>
    /\ ret = [loads |-> 0, calls |-> 0, values |-> <<>>, index |-> <<>>]

\* The guard at the head of each operation, loading on every call.
lazyLoad_Always ==
    [map |-> loadExistingJobs(sheet),
     ret |-> [ret EXCEPT !.calls = @ + 1,
                         !.loads = @ + 1,
                         !.values = valuesGetAll(sheet),
                         !.index = loadExistingJobs(sheet)]]

\* if (this.existingJobs === null) { await this.loadExistingJobs(); } : the
\* index the operation works on, and the record of the call, which counts
\* the loads and keeps the values read and the index built from them.
lazyLoad ==
    IF existingJobs.isNull
    THEN [map |-> loadExistingJobs(sheet),
          ret |-> [ret EXCEPT !.calls = @ + 1,
                              !.loads = @ + 1,
                              !.values = valuesGetAll(sheet),
                              !.index = loadExistingJobs(sheet)]]
    ELSE [map |-> existingJobs.map,
          ret |-> [ret EXCEPT !.calls = @ + 1]]

\* writer.ts 439-459
GetExistingJobIdsCall ==
    /\ ret.calls < MaxCalls
    /\ fn' = "getExistingJobIds"
    /\ existingJobs' = [isNull |-> FALSE, map |-> lazyLoad.map]
    /\ ret' = lazyLoad.ret
    /\ UNCHANGED <<arg, sheet, pc, clock, uniqueJobs, jobsToAnalyze, matchResults,
                   newJobs, rows, currentRowCount, writeResult, result, writes,
                   applied, edits>>

\* writer.ts 428-433
JobExistsCall ==
    /\ ret.calls < MaxCalls
    /\ fn' = "jobExists"
    /\ existingJobs' = [isNull |-> FALSE, map |-> lazyLoad.map]
    /\ ret' = lazyLoad.ret
    /\ UNCHANGED <<arg, sheet, pc, clock, uniqueJobs, jobsToAnalyze, matchResults,
                   newJobs, rows, currentRowCount, writeResult, result, writes,
                   applied, edits>>

\* writer.ts 418-423
GetExistingJobCountCall ==
    /\ ret.calls < MaxCalls
    /\ fn' = "getExistingJobCount"
    /\ existingJobs' = [isNull |-> FALSE, map |-> lazyLoad.map]
    /\ ret' = lazyLoad.ret
    /\ UNCHANGED <<arg, sheet, pc, clock, uniqueJobs, jobsToAnalyze, matchResults,
                   newJobs, rows, currentRowCount, writeResult, result, writes,
                   applied, edits>>

\* writer.ts 92-173: appendJobs with one job and no match results, from the
\* classification to the update of the index.
AppendJobsCall ==
    /\ ret.calls < MaxCalls
    /\ \E jobs \in {b \in Batches : Len(b) = 1} :
        LET map == lazyLoad.map
            c == classify(jobs, map)
            updating == Len(c.jobsToUpdate) > 0
            updateData == updateExistingJobsData(c.jobsToUpdate, 1)
            updated == IF updating THEN valuesUpdate(sheet, updateData) ELSE sheet
            updatedMap == IF updating THEN updateExistingJobsCache(map, c.jobsToUpdate)
                          ELSE map
            appending == Len(c.newJobs) > 0
            newRows == [i \in DOMAIN c.newJobs |-> jobToRow(c.newJobs[i], <<>>, 1)]
            rowCount == IF valuesGetColumnA(updated) = 0 THEN 1
                        ELSE valuesGetColumnA(updated)
            appendedData == appendData(newRows, rowCount + 1)
        IN  /\ sheet' = IF appending THEN valuesUpdate(updated, appendedData)
                        ELSE updated
            /\ existingJobs' =
                  [isNull |-> FALSE,
                   map |-> IF appending
                           THEN appendJobsCache(updatedMap, c.newJobs, 1, rowCount,
                                                NoMatchResults)
                           ELSE updatedMap]
            /\ writes' = writes
                         \o (IF updating THEN <<WriteRequest("update", updateData)>>
                             ELSE <<>>)
                         \o (IF appending THEN <<WriteRequest("append", appendedData)>>
                             ELSE <<>>)
    /\ fn' = "appendJobs"
    /\ ret' = lazyLoad.ret
    /\ UNCHANGED <<arg, pc, clock, uniqueJobs, jobsToAnalyze, matchResults,
                   newJobs, rows, currentRowCount, writeResult, result,
                   applied, edits>>

\* writer.ts 180-259: updateExistingJobProbabilities with the result of one
\* job.
UpdateExistingJobProbabilitiesCall ==
    /\ ret.calls < MaxCalls
    /\ \E jobs \in {b \in Batches : Len(b) = 1} :
        LET map == lazyLoad.map
            results == <<analyzeJob(jobs[1], 70)>>
            jobsToUpdate == probabilityUpdates(map, results)
            data == probabilityUpdatesData(map, jobsToUpdate)
            writing == Len(jobsToUpdate) > 0
        IN  /\ sheet' = IF writing THEN valuesUpdate(sheet, data) ELSE sheet
            /\ writes' = IF writing THEN Append(writes, WriteRequest("backfill", data))
                         ELSE writes
            /\ existingJobs' =
                  [isNull |-> FALSE,
                   map |-> IF writing THEN probabilityUpdatesCache(map, jobsToUpdate)
                           ELSE map]
    /\ fn' = "updateExistingJobProbabilities"
    /\ ret' = lazyLoad.ret
    /\ UNCHANGED <<arg, pc, clock, uniqueJobs, jobsToAnalyze, matchResults,
                   newJobs, rows, currentRowCount, writeResult, result,
                   applied, edits>>

NextWriterCalls ==
    \/ GetExistingJobIdsCall
    \/ JobExistsCall
    \/ GetExistingJobCountCall
    \/ AppendJobsCall
    \/ UpdateExistingJobProbabilitiesCall

SpecWriterCalls == InitWriterCalls /\ [][NextWriterCalls]_vars

-----------------------------------------------------------------------------
(* processJobAlerts with the mailbox: the unread emails a run fetches, and
   what markAsProcessed does to them *)

MailIds == 1..MaxEmails

\* The job of the card of an email.
MailJob(id) ==
    [jobId |-> id, title |-> <<"A">>, company |-> <<"C">>,
     location |-> <<"L">>, url |-> jobViewUrl(id)]

\* fetchJobAlertEmails: the unread emails in the order of their ids.
fetchJobAlertEmails(mailbox, unread) ==
    LET ids == SelectSeq([i \in MailIds |-> i], LAMBDA i : i \in unread)
    IN  [k \in DOMAIN ids |-> mailbox[ids[k]]]

\* The header cells ensureSheetSetup writes to row 1 in every run.
headerData ==
    <<Cell(1, "job_id", HeaderRow.job_id), Cell(1, "status", HeaderRow.status),
      Cell(1, "url", HeaderRow.url)>>

\* Each email of the mailbox has no job card or the card of one job; two
\* emails may have the card of the same job.
InitMailbox ==
    /\ RunInit
    /\ fn = "none"
    /\ arg \in [MailIds -> {<<>>} \cup {<<MailJob(id)>> : id \in JobIds}]
    /\ ret \in [unread : SUBSET MailIds, fetched : {{}}]

\* The start of a run that marks the emails as processed as soon as they are
\* fetched.
ProcessJobAlertsStart_MarkAtFetch ==
    /\ pc = "idle"
    /\ clock < MaxRuns
    /\ LET emails == fetchJobAlertEmails(arg, ret.unread)
           batch == parseAndDeduplicate(emails)
       IN  /\ uniqueJobs' = batch.uniqueJobs
           /\ IF Len(emails) = 0
              THEN /\ pc' = "idle"
                   /\ result' = [ProcessingResult EXCEPT !.success = TRUE,
                                                         !.httpStatus = 200]
              ELSE /\ pc' = IF batch.jobsFound = 0 THEN "mark" ELSE "load"
                   /\ result' = ProcessingResult
    /\ ret' = [unread |-> {}, fetched |-> ret.unread]
    /\ sheet' = valuesUpdate(sheet, headerData)
    /\ writes' = <<WriteRequest("setup", headerData)>>
    /\ applied' = {}
    /\ clock' = clock + 1
    /\ existingJobs' = NoIndex
    /\ UNCHANGED <<fn, arg, jobsToAnalyze, matchResults, newJobs, rows,
                   currentRowCount, writeResult, edits>>

\* index.ts 90-164: a run starts; ensureSheetSetup writes the header row, the
\* unread emails are fetched, parsed and deduplicated; with no email the run
\* responds 200, with no job in the emails it goes on to markAsProcessed.
ProcessJobAlertsStart ==
    /\ pc = "idle"
    /\ clock < MaxRuns
    /\ LET emails == fetchJobAlertEmails(arg, ret.unread)
           batch == parseAndDeduplicate(emails)
       IN  /\ uniqueJobs' = batch.uniqueJobs
           /\ IF Len(emails) = 0
              THEN /\ pc' = "idle"
                   /\ result' = [ProcessingResult EXCEPT !.success = TRUE,
                                                         !.httpStatus = 200]
              ELSE /\ pc' = IF batch.jobsFound = 0 THEN "mark" ELSE "load"
                   /\ result' = ProcessingResult
    /\ ret' = [ret EXCEPT !.fetched = ret.unread]
    /\ sheet' = valuesUpdate(sheet, headerData)
    /\ writes' = <<WriteRequest("setup", headerData)>>
    /\ applied' = {}
    /\ clock' = clock + 1
    /\ existingJobs' = NoIndex
    /\ UNCHANGED <<fn, arg, jobsToAnalyze, matchResults, newJobs, rows,
                   currentRowCount, writeResult, edits>>

\* index.ts 261-277 and part_002 495-516: markAsProcessed labels the fetched
\* emails, removes UNREAD and INBOX from them, and the run responds 200.
MarkFetchedAsProcessed ==
    /\ pc = "mark"
    /\ ret' = [ret EXCEPT !.unread = @ \ ret.fetched]
    /\ result' = [result EXCEPT !.success = TRUE, !.httpStatus = 200]
    /\ pc' = "idle"
    /\ existingJobs' = NoIndex
    /\ uniqueJobs' = <<>>
    /\ jobsToAnalyze' = <<>>
    /\ matchResults' = NoMatchResults
    /\ newJobs' = <<>>
    /\ rows' = <<>>
    /\ currentRowCount' = 0
    /\ writeResult' = NoWriteResult
    /\ writes' = <<>>
    /\ UNCHANGED <<fn, arg, sheet, clock, applied, edits>>

NextMailbox ==
    \/ ProcessJobAlertsStart
    \/ GetExistingJobIds
    \/ AnalyzeJobs
    \/ AppendJobsClassify
    \/ AppendJobsReadRowCount
    \/ AppendJobsWrite
    \/ UpdateExistingJobProbabilities
    \/ MarkFetchedAsProcessed
    \/ TransportFailure

SpecMailbox == InitMailbox /\ [][NextMailbox]_vars

-----------------------------------------------------------------------------
(* Properties *)

Last(s) == s[Len(s)]

\* The step sent a write request; it is Last(writes').
SendsWrite == Len(writes') = Len(writes) + 1

\* appendJobs returns in this step.
AppendJobsReturns == pc \in {"append", "write"} /\ pc' = "backfill"

\* The rows of the sheet that hold a job.
JobRows == {r \in 2..Len(sheet) : sheet[r].job_id # ""}

\* The status cells among the cells of a write request.
StatusCells(data) == {c \in DOMAIN data : data[c].col = "status"}

\* The index entries (job ids) whose row is rowNumber.
EntriesAt(map, rowNumber) == {id \in DOMAIN map : map[id].rowNumber = rowNumber}

\* C1: no two rows of the store carry the same non-empty jobId, whatever the
\* runs have ingested.
C1_StoreIdentityUnique ==
    \A i, j \in DOMAIN sheet :
        (i # j /\ sheet[i].job_id # "") => sheet[i].job_id # sheet[j].job_id

\* A second run has met a posting that the first run stored, and the store
\* still holds it once.
C1_Witness ==
    /\ clock = 2
    /\ pc = "mark"
    /\ result.jobsSkipped + result.jobsUpdated >= 1
    /\ Cardinality(JobRows) >= 1

\* C2: appendJobs applied again to the batch it was last applied to, with no
\* external change in between, adds nothing, updates nothing, skips the whole
\* batch and sends no write.
C2_ReapplyIsIdempotent ==
    [][(AppendJobsReturns /\ applied = Range(uniqueJobs))
        => /\ result'.jobsAdded = 0
           /\ result'.jobsUpdated = 0
           /\ result'.jobsSkipped = Len(uniqueJobs)
           /\ writes' = <<>>]_vars

\* The cells of a row that updateExistingJobs may write.
UpdateColumns == {"date_modified", "job_title", "company", "location", "url"}

\* C3: the update of an existing row writes only its dateModified, title,
\* company, location and url cells; every other cell of every row is as it was.
C3_UpdateWritesOnlyComparableCells ==
    [][(pc = "append" /\ pc' # "append")
        => /\ Len(sheet') = Len(sheet)
           /\ \A r \in DOMAIN sheet :
                \A col \in Range(COLUMN_HEADERS) \ UpdateColumns :
                    sheet'[r][col] = sheet[r][col]
           /\ SendsWrite =>
                \A c \in DOMAIN Last(writes').data :
                    Last(writes').data[c].col \in UpdateColumns]_vars

\* An update has been written to a row whose status the editor had set.
C3_Witness ==
    /\ pc \in {"count", "backfill"}
    /\ writes # <<>>
    /\ Last(writes).op = "update"
    /\ \E c \in DOMAIN Last(writes).data :
        /\ sheet[Last(writes).data[c].row].status \in EditorStatuses
        /\ sheet[Last(writes).data[c].row].date_modified
             > sheet[Last(writes).data[c].row].date_added

EngineStatuses == {JobStatus.NEW, JobStatus.LOW_MATCH, JobStatus.NOT_AVAILABLE}

\* C4: every status value in a write request of the engine is NEW, LOW MATCH
\* or NOT AVAILABLE.
C4_EngineWritesOnlyEngineStatuses ==
    \A k \in DOMAIN writes :
        \A c \in StatusCells(writes[k].data) :
            writes[k].data[c].val \in EngineStatuses

\* The run has written LOW MATCH in a backfill and NOT AVAILABLE or LOW MATCH
\* in an append.
C4_Witness ==
    \E k \in DOMAIN writes :
        \E c \in StatusCells(writes[k].data) :
            writes[k].data[c].val # JobStatus.NEW

RowsOf(data) == {data[c].row : c \in DOMAIN data}

AppendedRowIs(i, status) ==
    LET r == currentRowCount + i
        mr == mapGet(matchResults, newJobs[i].jobId)
    IN  /\ r <= Len(sheet')
        /\ sheet'[r].job_id = newJobs[i].jobId
        /\ sheet'[r].status = status
        /\ sheet'[r].date_added = clock
        /\ sheet'[r].date_added = sheet'[r].date_modified
        /\ sheet'[r].notes = <<>>
        /\ sheet'[r].probability = (IF mr # <<>> THEN mr[1].probability ELSE NULL)
        /\ sheet'[r].gemini_score = (IF mr # <<>> THEN mr[1].geminiProbability ELSE NULL)
        /\ sheet'[r].claude_score = (IF mr # <<>> THEN mr[1].claudeProbability ELSE NULL)

\* C7 as stated: every appended row has status NEW, dateAdded = dateModified,
\* blank notes and the scores of its match result, null without one.
C7_AppendedRowsAreNew ==
    [][(pc = "write" /\ pc' = "backfill")
        => \A i \in DOMAIN newJobs : AppendedRowIs(i, JobStatus.NEW)]_vars

\* C7 amended: the status of an appended row is the status of its match
\* result when one is supplied (NEW, LOW MATCH or NOT AVAILABLE) and NEW
\* otherwise; the rest as stated.
C7_AppendedRowsCarryMatchStatus ==
    [][(pc = "write" /\ pc' = "backfill")
        => \A i \in DOMAIN newJobs :
            LET mr == mapGet(matchResults, newJobs[i].jobId)
            IN  AppendedRowIs(i, IF mr # <<>> THEN mr[1].status ELSE JobStatus.NEW)]_vars

\* An append has written a row with a match result below the threshold.
C7_Witness ==
    /\ pc = "backfill"
    /\ writes # <<>>
    /\ Last(writes).op = "append"
    /\ \E c \in StatusCells(Last(writes).data) :
        /\ Last(writes).data[c].val = JobStatus.LOW_MATCH
        /\ sheet[Last(writes).data[c].row].probability \in Probabilities

\* At least one of title, company, location, url of the job differs from the
\* indexed value.
Differs(job, existing) ==
    \/ job.title # existing.title
    \/ job.company # existing.company
    \/ job.location # existing.location
    \/ job.url # existing.url

\* C8: appendJobs classifies a record as new when its jobId is not indexed, as
\* an update when it is indexed and one of title, company, location, url
\* differs from the indexed value, as skipped when none differs; the three
\* counts add up to the batch size.
C8_ClassificationPartitions ==
    [][(pc = "append" /\ pc' # "append")
        => LET map == existingJobs.map
               absent == SelectSeq(uniqueJobs, LAMBDA j : j.jobId \notin DOMAIN map)
               changed == SelectSeq(uniqueJobs, LAMBDA j :
                              j.jobId \in DOMAIN map /\ Differs(j, map[j.jobId]))
               same == SelectSeq(uniqueJobs, LAMBDA j :
                              j.jobId \in DOMAIN map /\ ~Differs(j, map[j.jobId]))
           IN  /\ newJobs' = absent
               /\ writeResult'.jobsUpdated = Len(changed)
               /\ writeResult'.jobsSkipped = Len(same)
               /\ writeResult'.jobsAdded + writeResult'.jobsUpdated
                    + writeResult'.jobsSkipped = Len(uniqueJobs)]_vars

\* C9: the row count appendJobs re-reads covers every occupied row, and the
\* new rows are written past every row occupied when the write arrives.
C9_AppendPastEveryOccupiedRow ==
    [][/\ (pc = "count" /\ pc' = "write")
            => currentRowCount' >= Len(valuesGetAll(sheet))
       /\ (pc = "write" /\ pc' = "backfill")
            => currentRowCount + 1 > Len(valuesGetAll(sheet))]_vars

\* The index field that mirrors a column.
MirrorField ==
    [job_title |-> "title", company |-> "company", location |-> "location",
     url |-> "url", probability |-> "probability", status |-> "status"]

\* C10: after a write, the index has an entry at every row written, and the
\* entry's title, company, location, url, probability and status equal the
\* values written to that row.
C10_IndexMirrorsEveryWrite ==
    [][SendsWrite
        => \A c \in DOMAIN Last(writes').data :
            LET cell == Last(writes').data[c]
            IN  /\ EntriesAt(existingJobs'.map, cell.row) # {}
                /\ cell.col \in DOMAIN MirrorField =>
                    \A id \in EntriesAt(existingJobs'.map, cell.row) :
                        existingJobs'.map[id][MirrorField[cell.col]] = cell.val]_vars

\* The positions of s that hold the first occurrence of their jobId.
FirstOccurrences(s) ==
    {i \in DOMAIN s : \A k \in 1..(i - 1) : s[k].jobId # s[i].jobId}

\* The k-th smallest element of the set of numbers S.
KthSmallest(S, k) == CHOOSE i \in S : Cardinality({j \in S : j < i}) = k - 1

C12_SingleProviderStatusByThreshold ==
    fn = "analyzeJob"
    => /\ ret.jobId = arg.job.jobId
       /\ (arg.resumeLoaded /\ arg.outcome \in Percent)
            => /\ ret.probability = arg.outcome
               /\ arg.outcome < 70 => ret.status = JobStatus.LOW_MATCH
               /\ arg.outcome >= 70 => ret.status = JobStatus.NEW
       /\ (arg.resumeLoaded /\ arg.outcome \in {ProviderNull, ProviderThrow})
            => /\ ret.status = JobStatus.NOT_AVAILABLE
               /\ ret.probability = NULL
       /\ ret.status = JobStatus.LOW_MATCH
            => ret.probability # NULL /\ ret.probability < 70
       /\ ret.status = JobStatus.NOT_AVAILABLE => ret.probability = NULL

\* The provider has returned exactly 70 and the result is NEW.
C12_Witness ==
    /\ fn = "analyzeJob"
    /\ arg.resumeLoaded
    /\ arg.outcome = 70
    /\ ret.probability = 70
    /\ ret.status = JobStatus.NEW

\* The status the threshold rule gives a probability.
ByThreshold(p) == IF p < 70 THEN JobStatus.LOW_MATCH ELSE JobStatus.NEW

\* C13: when both providers return a probability, the probability of the
\* result is the mean of the two rounded to the nearest integer (a half
\* rounds up) and the status follows from it by the threshold rule; 80 and 60
\* give 70 and NEW.
C13_EnsembleIsRoundedMean ==
    (fn = "analyzeJobDual" /\ arg.gemini \in Percent /\ arg.claude \in Percent)
    => /\ 2 * ret.probability \in {arg.gemini + arg.claude, arg.gemini + arg.claude + 1}
       /\ ret.status = ByThreshold(ret.probability)
       /\ (arg.gemini = 80 /\ arg.claude = 60)
            => ret.probability = 70 /\ ret.status = JobStatus.NEW

\* The providers have returned 80 and 60 and the result is 70, NEW.
C13_Witness ==
    /\ fn = "analyzeJobDual"
    /\ arg.gemini = 80
    /\ arg.claude = 60
    /\ ret.probability = 70
    /\ ret.status = JobStatus.NEW

\* C14: when exactly one provider fails, the result has the probability of
\* the other, the status the threshold rule gives it, and is not NOT
\* AVAILABLE; a result is NOT AVAILABLE only when both providers failed.
C14_OneProviderFailureFallsBack ==
    fn = "analyzeJobDual"
    => /\ (failed(arg.gemini) /\ ~failed(arg.claude))
            => /\ ret.probability = arg.claude
               /\ ret.status = ByThreshold(arg.claude)
       /\ (failed(arg.claude) /\ ~failed(arg.gemini))
            => /\ ret.probability = arg.gemini
               /\ ret.status = ByThreshold(arg.gemini)
       /\ ret.status = JobStatus.NOT_AVAILABLE
            => failed(arg.gemini) /\ failed(arg.claude)

\* The first provider has failed, the second has returned 55 and the result
\* is 55, LOW MATCH.
C14_Witness ==
    /\ fn = "analyzeJobDual"
    /\ failed(arg.gemini)
    /\ arg.claude = 55
    /\ ret.probability = 55
    /\ ret.status = JobStatus.LOW_MATCH

\* The results stored under the jobId of arg.jobs[i].
ResultsOf(i) == SelectSeq(ret.results, LAMBDA r : r.jobId = arg.jobs[i].jobId)

\* What analyzeJobs has returned is right for every record of the batch.
AnalyzeJobsCorrect ==
    /\ Len(ret.results) = Len(arg.jobs)
    /\ \A i \in DOMAIN arg.jobs :
        /\ Len(ResultsOf(i)) = 1
        /\ ~arg.resumeLoaded
            => /\ ResultsOf(i)[1].status = JobStatus.NEW
               /\ ResultsOf(i)[1].probability = NULL
        /\ (arg.resumeLoaded /\ failed(ret.outcomes[i]))
            => /\ ResultsOf(i)[1].status = JobStatus.NOT_AVAILABLE
               /\ ResultsOf(i)[1].probability = NULL
        /\ (arg.resumeLoaded /\ ~failed(ret.outcomes[i]))
            => /\ ResultsOf(i)[1].status # JobStatus.NOT_AVAILABLE
               /\ ResultsOf(i)[1].probability = ret.outcomes[i]

\* C15: analyzeJobs always returns, and what it returns holds exactly one
\* result for every record of the batch, under the record's jobId; a record
\* whose provider call failed is NOT AVAILABLE and every other record has
\* the result of its own call.
C15_AnalyzeJobsOneResultPerRecord ==
    /\ [](fn = "returned" => AnalyzeJobsCorrect)
    /\ <>(fn = "returned")

\* A batch of three has returned with a failure on the second record only.
C15_Witness ==
    /\ fn = "returned"
    /\ Len(arg.jobs) = 3
    /\ Len(ret.outcomes) = 3
    /\ ret.inFlight = {}
    /\ ~failed(ret.outcomes[1])
    /\ failed(ret.outcomes[2])
    /\ ~failed(ret.outcomes[3])
    /\ Len(ret.results) = 3

\* C16: at every moment of analyzeJobs at most 3 records have a provider call
\* in flight, and no record is handed to the provider twice in a batch.
C16_AtMostThreeCallsInFlight ==
    fn \in {"loop", "await", "returned"}
    => /\ Cardinality(ret.inFlight) <= 3
       /\ \A k, m \in DOMAIN ret.calls : k # m => ret.calls[k] # ret.calls[m]

\* The call of the fourth record of a batch is in flight, after the calls
\* of the first three.
C16_Witness ==
    /\ fn = "await"
    /\ Len(arg.jobs) >= 4
    /\ ret.calls = <<1, 2, 3, 4>>
    /\ ret.inFlight = {4}

\* A write of the run appends a row for the job with status NEW and a null
\* probability.
WrittenAsNew(jobId) ==
    \E k \in DOMAIN writes :
        LET data == writes[k].data
        IN  /\ writes[k].op = "append"
            /\ \E c \in DOMAIN data :
                /\ data[c].col = "job_id"
                /\ data[c].val = jobId
                /\ \E d \in DOMAIN data :
                    /\ data[d].row = data[c].row
                    /\ data[d].col = "status"
                    /\ data[d].val = JobStatus.NEW
                /\ \E d \in DOMAIN data :
                    /\ data[d].row = data[c].row
                    /\ data[d].col = "probability"
                    /\ data[d].val = NULL

\* The store holds the job with status NEW and a null probability.
StoredAsNew(jobId) ==
    \E r \in JobRows :
        /\ sheet[r].job_id = jobId
        /\ sheet[r].status = JobStatus.NEW
        /\ sheet[r].probability = NULL

\* The job has a row in the store and no write of the run sets the status or
\* the probability of that row.
KeptAsStored(jobId) ==
    \E r \in JobRows :
        /\ sheet[r].job_id = jobId
        /\ \A k \in DOMAIN writes : \A c \in DOMAIN writes[k].data :
            writes[k].data[c].row = r
            => writes[k].data[c].col \notin {"status", "probability"}

\* The failure of loadResume does not end the run, and the run ends with
\* success, HTTP 200 and jobsAnalyzed = 0.
ResumeFailureIsContained ==
    /\ (pc = "analyze" /\ matchResults'.matchError) => pc' = "append"
    /\ (matchResults.matchError /\ pc' = "idle")
        => /\ pc = "mark"
           /\ result'.success
           /\ result'.httpStatus = 200
           /\ result'.jobsAnalyzed = 0

\* C17 as stated: when loadResume throws, the run still writes every unique
\* job with status NEW and a null probability (after its writes the store
\* holds every job of the batch so), marks the emails processed and responds
\* HTTP 200 with success = true and jobsAnalyzed = 0.
C17_ResumeFailureWritesAllJobsAsNew ==
    [][/\ ResumeFailureIsContained
       /\ (matchResults.matchError /\ pc = "mark" /\ pc' = "idle")
           => \A i \in DOMAIN uniqueJobs : StoredAsNew(uniqueJobs[i].jobId)]_vars

\* C17 amended: when loadResume throws, the run appends every unique job that
\* is not in the store with status NEW and a null probability, leaves the
\* status and the probability of the jobs already stored as they are, marks
\* the emails processed and responds HTTP 200 with success = true and
\* jobsAnalyzed = 0.
C17_ResumeFailureAppendsNewJobsAsNew ==
    [][/\ ResumeFailureIsContained
       /\ (matchResults.matchError /\ pc = "mark" /\ pc' = "idle")
           => \A i \in DOMAIN uniqueJobs :
               \/ WrittenAsNew(uniqueJobs[i].jobId)
               \/ KeptAsStored(uniqueJobs[i].jobId)]_vars

\* A run whose loadResume threw is about to mark its emails: it has appended
\* a job as NEW and has left a stored LOW MATCH job of the batch as it was.
C17_Witness ==
    /\ pc = "mark"
    /\ matchResults.matchError
    /\ \E i \in DOMAIN uniqueJobs : WrittenAsNew(uniqueJobs[i].jobId)
    /\ \E i \in DOMAIN uniqueJobs :
        /\ ~WrittenAsNew(uniqueJobs[i].jobId)
        /\ \E r \in JobRows :
            /\ sheet[r].job_id = uniqueJobs[i].jobId
            /\ sheet[r].status = JobStatus.LOW_MATCH

\* The run that is failing has sent a write and has another one to send: the
\* append of its new jobs, or the update of the probabilities.
OnlySomeWritesApplied ==
    /\ writes # <<>>
    /\ \/ pc \in {"count", "write"}
       \/ /\ pc = "backfill"
          /\ matchResults.defined
          /\ Len(probabilityUpdates(existingJobs.map, matchResults.results)) > 0

\* C18: a failure of a call to the store or to the mail service ends the
\* run with HTTP 500, success = false and the error message in the summary,
\* and the failing run never leaves only some of its writes applied.
C18_TransportFailureIsFatalAndAtomic ==
    [][(result'.httpStatus = 500 /\ (pc # "idle" \/ clock' = clock + 1))
        => /\ pc' = "idle"
           /\ ~result'.success
           /\ result'.error # ""
           /\ ~OnlySomeWritesApplied]_vars

\* The href is an https URL on linkedin.com or www.linkedin.com whose path
\* has the jobs/view segment followed by at least one digit.
IsOnLinkedIn(h) ==
    LET u == parts(h)
    IN  /\ u.scheme = "https://"
        /\ u.host \in {"www.linkedin.com", "linkedin.com"}
        /\ u.view = "jobs/view/"
        /\ u.id # ""

\* The href is a LinkedIn job URL: on LinkedIn, with the path /jobs/view/<id>
\* or /comm/jobs/view/<id> and nothing after the digits of the id.
IsLinkedInJobHref(h) ==
    /\ IsOnLinkedIn(h)
    /\ parts(h).prefix \in {"/", "/comm/"}
    /\ parts(h).rest = ""

\* The hrefs of the job-view links of the card under extraction.
JobViewLinks == SelectSeq(arg.links, LAMBDA h : parts(h).view = "jobs/view/")

\* C19: a card yields a record only if the target of its first job-view
\* link is an https URL on linkedin.com or www.linkedin.com with a jobs/view
\* path and a non-empty numeric id.
C19_OnlyLinkedInJobUrlsAccepted ==
    (fn = "extracted" /\ ret # <<>>)
    => /\ JobViewLinks # <<>>
       /\ IsOnLinkedIn(Head(JobViewLinks))

\* C20: cleaning a LinkedIn job URL with tracking parameters and/or the comm/
\* path gives the job-view URL of its id, the same as cleaning the plain URL
\* of that id; the extracted record has exactly that id and a url without a
\* query; cleaning a cleaned URL returns it unchanged.
C20_CleanUrlIsCanonical ==
    /\ (fn = "cleaned" /\ IsLinkedInJobHref(arg.links[1]))
        => /\ ret[1] = jobViewUrl(parts(arg.links[1]).id)
           /\ ret[1] = cleanUrl(jobViewUrl(parts(arg.links[1]).id))
           /\ parts(ret[1]).search = ""
    /\ (fn = "extracted" /\ JobViewLinks # <<>> /\ IsLinkedInJobHref(Head(JobViewLinks)))
        => /\ ret # <<>>
           /\ ret[1].jobId = parts(Head(JobViewLinks)).id
           /\ ret[1].url = jobViewUrl(ret[1].jobId)
           /\ parts(ret[1].url).search = ""
    /\ (fn = "cleaned again" /\ IsLinkedInJobHref(arg.links[1]))
        => ret[1] = jobViewUrl(parts(arg.links[1]).id)

\* A URL with the comm/ path and a tracking parameter has been cleaned, and
\* cleaned again.
C20_Witness ==
    /\ fn = "cleaned again"
    /\ parts(arg.links[1]).prefix = "/comm/"
    /\ parts(arg.links[1]).search # ""
    /\ IsLinkedInJobHref(arg.links[1])
    /\ ret[1] = jobViewUrl(parts(arg.links[1]).id)

\* C21: sanitizeCellValue(v) is v with one apostrophe in front when the first
\* character of v is one of = + - @, and v itself otherwise (the empty text
\* and texts with those characters after the first position included); the
\* result never begins with = + - or @.
C21_SanitizerPrefixesUnsafeFirstCharacter ==
    fn = "sanitized"
    => /\ (arg # <<>> /\ arg[1] \in {"=", "+", "-", "@"}) => ret = <<"'">> \o arg
       /\ (arg = <<>> \/ arg[1] \notin {"=", "+", "-", "@"}) => ret = arg
       /\ ret = <<>> \/ ret[1] \notin {"=", "+", "-", "@"}

\* A text that begins with = and holds a + further on has been sanitized.
C21_Witness ==
    /\ fn = "sanitized"
    /\ arg = <<"=", "A", "+">>
    /\ ret = <<"'", "=", "A", "+">>

\* The value written to the column of the row the write is about.
Written(col) == {ret[c].val : c \in {d \in DOMAIN ret : ret[d].col = col}}

\* C22: in the append, update and backfill writes alike the title, company,
\* location, provider arguments and requirements gaps have passed through
\* the sanitizer, and no text cell written begins with = + - or @.
C22_EveryWrittenTextIsSanitized ==
    fn \in {"append", "update", "backfill"}
    => /\ \A c \in DOMAIN ret :
            ret[c].col \in TextColumns
            => ret[c].val = <<>> \/ ret[c].val[1] \notin {"=", "+", "-", "@"}
       /\ fn \in {"append", "update"}
            => /\ Written("job_title") = {sanitizeCellValue(arg.job.title)}
               /\ Written("company") = {sanitizeCellValue(arg.job.company)}
               /\ Written("location") = {sanitizeCellValue(arg.job.location)}
       /\ (fn = "append" /\ arg.mr # <<>>)
            => /\ Written("gemini_argument")
                      = {sanitizeCellValue(arg.mr[1].geminiReasoning)}
               /\ Written("claude_argument")
                      = {sanitizeCellValue(arg.mr[1].claudeReasoning)}
       /\ (fn \in {"append", "backfill"} /\ arg.mr # <<>>
               /\ arg.mr[1].requirementsGaps # <<>>)
            => Written("requirements_gaps")
                   = {sanitizeCellValue(join(arg.mr[1].requirementsGaps))}

\* The backfill has written the gaps of a match result whose first gap
\* begins with =.
C22_Witness ==
    /\ fn = "backfill"
    /\ arg.mr[1].requirementsGaps = <<<<"=", "A">>, <<"A">>>>
    /\ Written("requirements_gaps") = {<<"'", "=", "A", ";", " ", "A">>}

\* C23: on the same data parseJob throws exactly when safeParseJob returns
\* null, and both return the same record otherwise; an empty jobId, title or
\* company and a url that is not a LinkedIn job-view URL are rejected by
\* both, an empty location is accepted by both.
C23_StrictAndSafeModesAgree ==
    (ret.strict # <<>> /\ ret.safe # <<>>)
    => LET strict == ret.strict[1]
           safe == ret.safe[1]
           valid == /\ arg.jobId # ""
                    /\ arg.title # <<>>
                    /\ arg.company # <<>>
                    /\ IsOnLinkedIn(arg.url)
                    /\ parts(arg.url).prefix = "/"
       IN  /\ strict.throws <=> safe = <<>>
           /\ ~strict.throws => strict.job = safe
           /\ valid <=> ~strict.throws
           /\ valid => safe = <<arg>>

\* Both modes have accepted data with an empty location.
C23_Witness ==
    /\ ret.strict # <<>>
    /\ ret.safe # <<>>
    /\ arg.location = <<>>
    /\ ~ret.strict[1].throws
    /\ ret.strict[1].job = <<arg>>
    /\ ret.safe[1] = <<arg>>

\* The attempts of the call whose response carries a numeric probability.
Parsable == {k \in 1..2 : arg.responses[k].kind = "number"}

\* C24, its safety part: a call of the Gemini client makes at most two
\* requests, the first with search grounding and the second without; it
\* returns the result of the first attempt with a numeric probability and
\* makes no further request; after two failed attempts it returns null; it
\* never throws.
GeminiRetryProtocol ==
    arg.client = "gemini"
    => /\ fn # "thrown"
       /\ Len(ret.requests) <= 2
       /\ \A k \in DOMAIN ret.requests : ret.requests[k] <=> k = 1
       /\ fn = "returned"
            => IF Parsable = {}
               THEN /\ Len(ret.requests) = 2
                    /\ ret.result = <<>>
               ELSE LET first == CHOOSE k \in Parsable : \A m \in Parsable : k <= m
                    IN  /\ Len(ret.requests) = first
                        /\ ret.result = <<MatchAnalysisResult(arg.responses[first])>>

\* C24: the retry protocol of the Gemini client, and every call returns.
C24_GeminiRetriesOnceWithoutGrounding ==
    /\ [](GeminiRetryProtocol)
    /\ <>(fn = "returned")

\* The Gemini client has returned the result of its second request, made
\* without grounding after the first one threw.
C24_Witness ==
    /\ arg.client = "gemini"
    /\ fn = "returned"
    /\ arg.responses[1].kind = "throws"
    /\ ret.requests = <<TRUE, FALSE>>
    /\ ret.result # <<>>

\* The responses to the requests the call has made.
Answered == {arg.responses[k] : k \in DOMAIN ret.requests}

\* The integer nearest to a number given in halves, a half going up, then
\* brought into 0..100.
RoundedThenClamped(halves, probability) ==
    \E rounded \in -2..102 :
        /\ halves \in {2 * rounded - 1, 2 * rounded}
        /\ probability = IF rounded < 0 THEN 0
                         ELSE IF rounded > 100 THEN 100 ELSE rounded

\* C25: the probability a provider client returns is an integer in 0..100,
\* the parsed value rounded and then clamped; when no request of the call
\* got a response with a numeric probability the client returns null, and it
\* does not throw.
C25_ReturnedProbabilityIsRoundedAndClamped ==
    /\ fn # "thrown"
    /\ fn = "returned"
         => /\ \A r \in Range(ret.result) :
                  /\ r.probability \in 0..100
                  /\ \E response \in Answered :
                        /\ response.kind = "number"
                        /\ RoundedThenClamped(response.halves, r.probability)
            /\ (\A response \in Answered : response.kind # "number")
                  => ret.result = <<>>

\* The Claude client has returned 100 for a response that gave 101.5.
C25_Witness ==
    /\ arg.client = "claude"
    /\ fn = "returned"
    /\ arg.responses[1] = [kind |-> "number", halves |-> 203]
    /\ ret.result = <<[probability |-> 100, reasoning |-> <<"r">>]>>

\* The links of the card in `arg` that point to a job view.
ArgJobLinks == findJobLinks(arg, 1)

\* A link whose trimmed text has more than 2 characters.
HasLongText(a) == Len(trim(a.text)) > 2

\* The first of the given links that satisfies `accepted`, as a sequence of
\* at most one link.
FirstLink(links, accepted(_)) ==
    LET I == {i \in DOMAIN links : accepted(links[i])}
    IN  IF I = {} THEN <<>> ELSE <<links[CHOOSE i \in I : \A j \in I : i <= j]>>

\* The title the ordered fallback gives the card in `arg` when strategy (b)
\* accepts the links that satisfy `accepted`.
FallbackTitle(accepted(_)) ==
    LET bold == SelectSeq(ArgJobLinks, LAMBDA a : a.bold)
        a == trim(selectionText(bold))
        b == FirstLink(ArgJobLinks, accepted)
        c == FirstLink(<<[text |-> arg.h3], [text |-> arg.h4], [text |-> arg.jobTitle]>>,
                       HasLongText)
    IN  IF a # <<>> THEN a
        ELSE IF b # <<>> THEN trim(b[1].text)
        ELSE IF c # <<>> THEN trim(c[1].text)
        ELSE UnknownTitle

\* The card in `arg` is kept exactly when the href of its first job-view
\* link is cleaned to a LinkedIn job URL, whatever its texts are.
KeptForItsUrlAlone ==
    ret # <<>> <=> /\ ArgJobLinks # <<>>
                   /\ testLinkedInJobUrl(cleanUrl(ArgJobLinks[1].href))

\* C26: the title of a card is that of the first strategy that gives one:
\* the text of the bold job-view links, else the text of the first job-view
\* link that strategy (b) accepts (trimmed text of more than 2 characters, in
\* a link without an image), else the first of h3, h4 and
\* [data-test-id=job-title] with a trimmed text of more than 2 characters,
\* else the placeholder; and a card is kept or rejected for its URL alone.
C26_TitleIsFirstStrategyWithTitle ==
    fn = "extracted"
    => /\ KeptForItsUrlAlone
       /\ \A job \in Range(ret) :
            job.title = FallbackTitle(LAMBDA a : HasLongText(a) /\ ~a.img)

\* A card whose only link has a short text and whose h3 is short got the
\* title of its h4.
C26_Witness ==
    /\ fn = "extracted"
    /\ Len(arg.links) = 1
    /\ arg.anchors[1] = [text |-> <<" ", "A", "B", " ">>, bold |-> FALSE, img |-> FALSE]
    /\ arg.h3 = <<"H", "3", " ">>
    /\ ret # <<>>
    /\ ret[1].title = <<"H", "4", "x">>

\* C27: in strategy (b) a job-view link with a trimmed text of more than 2
\* characters is accepted even when it contains an image: on a card without
\* bold link text whose first job-view link has such a text, the title is
\* that text.
C27_LinkWithTextAndImageIsAccepted ==
    /\ fn = "extracted"
    /\ ret # <<>>
    /\ fontBoldTitle(arg) = <<>>
    /\ HasLongText(ArgJobLinks[1])
    => ret[1].title = trim(ArgJobLinks[1].text)

\* A job the run may have analyzed: absent from the index as loaded, or
\* stored with no probability and the status NEW.
MayBeAnalyzed(jobId) ==
    \/ jobId \notin DOMAIN existingJobs.map
    \/ /\ existingJobs.map[jobId].probability = NULL
       /\ existingJobs.map[jobId].status = JobStatus.NEW

\* C28: the provider clients are initialised and called only for a batch
\* with a job to analyze, and every job given to them, and every job with a
\* match result, is absent from the store as loaded or stored with no
\* probability and the status NEW.
C28_OnlyUnscoredNewJobsAreAnalyzed ==
    /\ pc = "analyze"
         => /\ jobsToAnalyze # <<>>
            /\ \A job \in Range(jobsToAnalyze) : MayBeAnalyzed(job.jobId)
    /\ pc = "append"
         => \A r \in Range(matchResults.results) : MayBeAnalyzed(r.jobId)

\* A job that is stored with no probability and the status NEW is about to be
\* analyzed in a later run.
C28_Witness ==
    /\ pc = "analyze"
    /\ \E job \in Range(jobsToAnalyze) :
          /\ job.jobId \in DOMAIN existingJobs.map
          /\ existingJobs.map[job.jobId].probability = NULL
          /\ existingJobs.map[job.jobId].status = JobStatus.NEW

\* C29: a writer loads the table at most once, on the first call of any of
\* the five operations; the index built by the load has exactly the job_ids
\* of the rows after the header whose job_id cell is not empty, each with the
\* 1-based number of a row that holds it.
C29_TableIsLoadedOnceOnFirstCall ==
    /\ ret.loads <= 1
    /\ ret.calls >= 1 => ret.loads = 1
    /\ ret.loads = 1
         => /\ DOMAIN ret.index =
                  {ret.values[i].job_id : i \in 2..Len(ret.values)} \ {""}
            /\ \A id \in DOMAIN ret.index :
                  /\ ret.index[id].rowNumber \in 2..Len(ret.values)
                  /\ ret.values[ret.index[id].rowNumber].job_id = id

\* jobExists was the third call on a table whose second row has no job_id and
\* whose third row is the row of job 1, after an appendJobs that added a row:
\* the table was loaded once and job 1 was indexed with row 3.
C29_Witness ==
    /\ fn = "jobExists"
    /\ ret.calls = 3
    /\ ret.loads = 1
    /\ Len(ret.values) = 3
    /\ ret.values[2].job_id = ""
    /\ "1" \in DOMAIN ret.index
    /\ ret.index["1"].rowNumber = 3
    /\ Len(writes) > 0

\* The step is markAsProcessed on the emails of the run.
MarksEmails == ret'.unread # ret.unread

\* The step starts a run that has fetched the unread emails.
StartsRun == pc = "idle" /\ clock' = clock + 1 /\ result'.httpStatus # 500

\* The last run ended when appendJobs or updateExistingJobProbabilities threw.
StoreWriteThrew ==
    /\ pc = "idle"
    /\ result.httpStatus = 500
    /\ result.error \in {"append", "count", "write", "backfill"}

\* The emails are marked only by the step that follows the writes of the run
\* and responds 200; a run that ends in an error marks nothing, and the run
\* after a failed store write fetches the emails of that run again.
MarkedOnlyAfterTheWrites ==
    /\ MarksEmails => pc = "mark" /\ result'.httpStatus = 200 /\ result'.success
    /\ result'.httpStatus = 500 => ret'.unread = ret.unread
    /\ StoreWriteThrew /\ StartsRun => ret.fetched \subseteq ret'.fetched

\* C30 as stated: the emails are marked only after the writes, a failed run
\* leaves them to the next run, and a run with no fetched email sends no
\* write to the store and none to the mailbox.
C30_ZeroEmailRunWritesNothing ==
    [][/\ MarkedOnlyAfterTheWrites
       /\ StartsRun /\ ret.unread = {}
            => /\ writes' = <<>>
               /\ sheet' = sheet
               /\ ret'.unread = ret.unread]_vars

\* C30, amended: the emails are marked only after the writes, a failed run
\* leaves them to the next run, and a run with no fetched email ends at once
\* with 200, having sent to the store only the header of ensureSheetSetup,
\* which every run writes before it fetches: no row of a job is written and
\* the mailbox is not written.
C30_EmailsMarkedOnlyAfterStoreWrites ==
    [][/\ MarkedOnlyAfterTheWrites
       /\ StartsRun /\ ret.unread = {}
            => /\ pc' = "idle"
               /\ result'.httpStatus = 200
               /\ \A w \in Range(writes') : w.op = "setup"
               /\ SubSeq(sheet', 2, Len(sheet')) = SubSeq(sheet, 2, Len(sheet))
               /\ ret'.unread = ret.unread]_vars

\* updateExistingJobProbabilities threw after appendJobs had written a row:
\* the emails of the run are still unread.
C30_Witness ==
    /\ pc = "idle"
    /\ result.httpStatus = 500
    /\ result.error = "backfill"
    /\ Len(sheet) > 1
    /\ ret.fetched # {}
    /\ ret.fetched \subseteq ret.unread

====
